---------------------------- MODULE Spec2Model ----------------------------
(***************************************************************************)
(* A model of RepoAnalyzer's structural-inference pipeline:                *)
(*   graph/dependency_graph.py   DependencyGraph, build_dependency_graph   *)
(*   graph/flow_builder.py       ExecutionFlow, build_execution_flow       *)
(*   analysis/entrypoint_finder.py, stack_detector.py,                     *)
(*   analysis/structure_analyzer.py, language_detector.py                  *)
(*                                                                         *)
(* Python strings are TLA+ strings; TLC evaluates Len, SubSeq and \o on    *)
(* them, so substring, prefix, suffix, split and strip are computed        *)
(* character by character as the Python code does.  A Python list is a     *)
(* sequence, a set is a set, and a dict whose iteration order matters is   *)
(* a sequence of records in insertion order.                               *)
(***************************************************************************)
EXTENDS Integers, Sequences, FiniteSets, TLC

VARIABLES
    files,          \* the input: a list of file records [path, content]
    pc,             \* position of the running function
    i,              \* index of the loop over files
    graph,          \* DependencyGraph: [nodes, edges, reverse_edges]
    ret,            \* the last DependencyGraph query: method, argument, value returned
    calls,          \* number of mutating DependencyGraph calls made so far
    detected,       \* detect_frameworks(files), once it has run
    result,         \* find_entrypoints: the three lists being built
    inputs,         \* build_execution_flow: its five arguments
    flow,           \* ExecutionFlow: [stages, connections]
    folders,            \* classify_folders: the set of top-level folders
    classifications,    \* classify_folders: the mapping, in key order
    language_counts,    \* get_repo_language_stats: files per language, in
                        \* insertion order
    language_lines,     \* get_repo_language_stats: lines per language
    total_files,        \* get_repo_language_stats: classified files so far
    stats,              \* get_repo_language_stats: the returned dict
    db_detected,        \* detect_databases(files), once it has run
    infra_detected      \* detect_infrastructure(files), once it has run

ioVars     == <<files, pc, i>>
graphVars  == <<graph, ret, calls>>
entryVars  == <<detected, result>>
flowVars   == <<inputs, flow>>
folderVars == <<folders, classifications>>
langVars   == <<language_counts, language_lines, total_files, stats>>

stackVars == <<db_detected, infra_detected>>
vars == <<ioVars, graphVars, entryVars, flowVars, folderVars, langVars, stackVars>>

(***************************************************************************)
(* Bounds of the model.                                                    *)
(***************************************************************************)
MaxCalls == 4       \* add_node/add_edge calls made on one DependencyGraph
MaxFiles == 3       \* length of an input file list

(***************************************************************************)
(* Python str operations.                                                  *)
(***************************************************************************)
Ch(s, k) == SubSeq(s, k, k)

\* s.startswith(p)
StartsWith(s, p) == Len(p) <= Len(s) /\ SubSeq(s, 1, Len(p)) = p

\* s.endswith(p)
EndsWith(s, p) ==
    Len(p) <= Len(s) /\ SubSeq(s, Len(s) - Len(p) + 1, Len(s)) = p

\* s[k-1:].startswith(p), k counted from 1
MatchesAt(s, p, k) ==
    k + Len(p) - 1 <= Len(s) /\ SubSeq(s, k, k + Len(p) - 1) = p

\* p in s
Contains(s, p) ==
    \/ p = ""
    \/ \E k \in 1..(Len(s) - Len(p) + 1) : MatchesAt(s, p, k)

\* the positions of the character c in s
Positions(s, c) == {k \in 1..Len(s) : Ch(s, k) = c}

SetMax(S) == CHOOSE x \in S : \A y \in S : y <= x
SetMin(S) == CHOOSE x \in S : \A y \in S : x <= y

\* s.split(c) for a one-character separator c
RECURSIVE Split(_, _)
Split(s, c) ==
    IF Positions(s, c) = {} THEN <<s>>
    ELSE LET k == SetMin(Positions(s, c))
         IN  <<SubSeq(s, 1, k - 1)>> \o Split(SubSeq(s, k + 1, Len(s)), c)

\* s.rsplit(c, 1)
RSplit1(s, c) ==
    IF Positions(s, c) = {} THEN <<s>>
    ELSE LET k == SetMax(Positions(s, c))
         IN  <<SubSeq(s, 1, k - 1), SubSeq(s, k + 1, Len(s))>>

Last(q) == q[Len(q)]

UpperChars == "ABCDEFGHIJKLMNOPQRSTUVWXYZ"
LowerChars == "abcdefghijklmnopqrstuvwxyz"

\* the lower-case letter of every upper-case letter
LowerOf ==
    [c \in {Ch(UpperChars, k) : k \in 1..Len(UpperChars)} |->
        Ch(LowerChars, SetMin(Positions(UpperChars, c)))]

LowerCh(c) == IF c \in DOMAIN LowerOf THEN LowerOf[c] ELSE c

\* s.lower()
RECURSIVE Lower(_)
Lower(s) == IF s = "" THEN "" ELSE LowerCh(Ch(s, 1)) \o Lower(SubSeq(s, 2, Len(s)))

\* the characters str.strip() removes and \s matches
Whitespace == {" ", "\t", "\n", "\r", "\f"}

\* s.strip()
Strip(s) ==
    LET keep == {k \in 1..Len(s) : Ch(s, k) \notin Whitespace}
    IN  IF keep = {} THEN "" ELSE SubSeq(s, SetMin(keep), SetMax(keep))

\* The printable ASCII characters in code-point order, 32..95 and 97..126:
\* Python compares strings by code point.
AsciiLow  == " !\"#$%&'()*+,-./0123456789:;<=>?@ABCDEFGHIJKLMNOPQRSTUVWXYZ[\\]^_"
AsciiHigh == "abcdefghijklmnopqrstuvwxyz{|}~"

\* ord(c)
\* the code point of every printable ASCII character of the two strings
OrdOf ==
    [c \in {Ch(AsciiLow, k) : k \in 1..Len(AsciiLow)}
            \cup {Ch(AsciiHigh, k) : k \in 1..Len(AsciiHigh)} |->
        IF Positions(AsciiLow, c) # {} THEN 31 + SetMin(Positions(AsciiLow, c))
        ELSE 96 + SetMin(Positions(AsciiHigh, c))]

Ord(c) == IF c \in DOMAIN OrdOf THEN OrdOf[c] ELSE 0

\* a < b for Python strings
RECURSIVE StrLess(_, _)
StrLess(a, b) ==
    IF b = "" THEN FALSE
    ELSE IF a = "" THEN TRUE
    ELSE IF Ch(a, 1) = Ch(b, 1)
         THEN StrLess(SubSeq(a, 2, Len(a)), SubSeq(b, 2, Len(b)))
         ELSE Ord(Ch(a, 1)) < Ord(Ch(b, 1))

\* sorted(list(S)) for a set S of strings
RECURSIVE Sorted(_)
Sorted(S) ==
    IF S = {} THEN <<>>
    ELSE LET m == CHOOSE x \in S : \A y \in S \ {x} : StrLess(x, y)
         IN  <<m>> \o Sorted(S \ {m})

Range(q) == {q[k] : k \in 1..Len(q)}

\* the lists of length at most n over the set S
ListsUpTo(S, n) == UNION {[1..k -> S] : k \in 0..n}

(***************************************************************************)
(* DependencyGraph (graph/dependency_graph.py).  edges and reverse_edges   *)
(* are defaultdict(set): a function whose domain is the set of keys that   *)
(* exist; only indexing (edges[k]) creates a key, .get(k, set()) does not. *)
(***************************************************************************)
EmptyMap == [k \in {} |-> {}]

\* DependencyGraph.__init__
NewGraph == [nodes |-> {}, edges |-> EmptyMap, reverse_edges |-> EmptyMap]

\* d[k].add(v) on a defaultdict(set)
DictAdd(d, k, v) ==
    [x \in DOMAIN d \cup {k} |->
        IF x = k THEN (IF k \in DOMAIN d THEN d[k] ELSE {}) \cup {v} ELSE d[x]]

\* d.get(k, set())
DictGet(d, k) == IF k \in DOMAIN d THEN d[k] ELSE {}

\* the dict after d[k] on a defaultdict(set): a missing key is created
DictAfterIndex(d, k) == [x \in DOMAIN d \cup {k} |-> IF x \in DOMAIN d THEN d[x] ELSE {}]

\* the dict after d.get(k, set()): no key is created
DictAfterGet(d, k) == d

add_node(g, node) == [g EXCEPT !.nodes = @ \cup {node}]

\* add_edge with the reverse index left alone
add_edge_no_reverse(g, from_node, to_node) ==
    [nodes         |-> g.nodes \cup {from_node, to_node},
     edges         |-> DictAdd(g.edges, from_node, to_node),
     reverse_edges |-> g.reverse_edges]

\* add_edge that does not register the target as a node
add_edge_forget_target(g, from_node, to_node) ==
    [nodes         |-> g.nodes \cup {from_node},
     edges         |-> DictAdd(g.edges, from_node, to_node),
     reverse_edges |-> DictAdd(g.reverse_edges, to_node, from_node)]

\* add_edge that takes the edge away when it is already there
add_edge_toggle(g, from_node, to_node) ==
    IF from_node \in DOMAIN g.edges /\ to_node \in g.edges[from_node]
    THEN [nodes         |-> g.nodes,
          edges         |-> [g.edges EXCEPT ![from_node] = @ \ {to_node}],
          reverse_edges |-> [g.reverse_edges EXCEPT ![to_node] = @ \ {from_node}]]
    ELSE [nodes         |-> g.nodes \cup {from_node, to_node},
          edges         |-> DictAdd(g.edges, from_node, to_node),
          reverse_edges |-> DictAdd(g.reverse_edges, to_node, from_node)]

add_edge(g, from_node, to_node) ==
    [nodes         |-> g.nodes \cup {from_node, to_node},
     edges         |-> DictAdd(g.edges, from_node, to_node),
     reverse_edges |-> DictAdd(g.reverse_edges, to_node, from_node)]

get_downstream(g, node) == Sorted(DictGet(g.reverse_edges, node))

\* get_upstream listing the dependencies in descending order
get_upstream_descending(g, node) ==
    LET up == Sorted(DictGet(g.edges, node))
    IN  [k \in 1..Len(up) |-> up[Len(up) + 1 - k]]

get_upstream(g, node) == Sorted(DictGet(g.edges, node))

get_all_nodes(g) == Sorted(g.nodes)

\* to_dict giving each node only the first of its sorted dependencies
to_dict_first_dep(g) ==
    [nodes |-> Sorted(g.nodes),
     edges |-> [k \in DOMAIN g.edges |-> SubSeq(Sorted(g.edges[k]), 1, 1)]]

to_dict(g) ==
    [nodes |-> Sorted(g.nodes),
     edges |-> [k \in DOMAIN g.edges |-> Sorted(g.edges[k])]]

(***************************************************************************)
(* Spec: one DependencyGraph driven through its public methods.            *)
(***************************************************************************)
NodeNames == {"a.py", "b.py", "pkg/c.py"}
Queries   == NodeNames \cup {"zz.py"}

NoFiles == <<>>

\* the state of the components a specification does not run
NoReturn    == [call |-> "", arg |-> "", value |-> <<>>]
IdleGraph   == graph = NewGraph /\ ret = NoReturn /\ calls = 0
IdleEntry   == detected = <<>> /\ result = <<>>
IdleFlow    == inputs = <<>> /\ flow = <<>>
IdleFolders == folders = {} /\ classifications = <<>>
IdleLang    ==
    language_counts = <<>> /\ language_lines = <<>> /\ total_files = 0 /\ stats = <<>>
IdleStack   == db_detected = <<>> /\ infra_detected = <<>>

Init ==
    /\ files = NoFiles
    /\ pc = "graph"
    /\ i = 0
    /\ IdleGraph
    /\ IdleEntry /\ IdleFlow /\ IdleFolders /\ IdleLang
    /\ IdleStack

AddNode(n) ==
    /\ calls < MaxCalls
    /\ graph' = add_node(graph, n)
    /\ calls' = calls + 1
    /\ UNCHANGED <<ioVars, ret, entryVars, flowVars, folderVars, langVars, stackVars>>

AddEdge(a, b) ==
    /\ calls < MaxCalls
    /\ graph' = add_edge(graph, a, b)
    /\ calls' = calls + 1
    /\ UNCHANGED <<ioVars, ret, entryVars, flowVars, folderVars, langVars, stackVars>>

GetDownstream(n) ==
    /\ ret' = [call |-> "get_downstream", arg |-> n, value |-> get_downstream(graph, n)]
    /\ graph' = [graph EXCEPT !.reverse_edges = DictAfterGet(@, n)]
    /\ UNCHANGED <<ioVars, calls, entryVars, flowVars, folderVars, langVars, stackVars>>

GetUpstream(n) ==
    /\ ret' = [call |-> "get_upstream", arg |-> n, value |-> get_upstream(graph, n)]
    /\ graph' = [graph EXCEPT !.edges = DictAfterGet(@, n)]
    /\ UNCHANGED <<ioVars, calls, entryVars, flowVars, folderVars, langVars, stackVars>>

GetAllNodes ==
    /\ ret' = [call |-> "get_all_nodes", arg |-> "", value |-> get_all_nodes(graph)]
    /\ UNCHANGED <<ioVars, graph, calls, entryVars, flowVars, folderVars, langVars, stackVars>>

ToDict ==
    /\ ret' = [call |-> "to_dict", arg |-> "", value |-> to_dict(graph)]
    /\ UNCHANGED <<ioVars, graph, calls, entryVars, flowVars, folderVars, langVars, stackVars>>

Next ==
    \/ \E n \in NodeNames : AddNode(n)
    \/ \E a \in NodeNames, b \in NodeNames : AddEdge(a, b)
    \/ \E n \in Queries : GetDownstream(n)
    \/ \E n \in Queries : GetUpstream(n)
    \/ GetAllNodes
    \/ ToDict

Spec == Init /\ [][Next]_vars

\* C1: in every graph reachable by add_node/add_edge calls, B is in
\* get_upstream(A) if and only if A is in get_downstream(B), for all A and B.
C1_UpstreamDownstreamInverse ==
    \A a \in Queries, b \in Queries :
        (b \in Range(get_upstream(graph, a))) <=> (a \in Range(get_downstream(graph, b)))

\* a graph with the edge a.py -> b.py, seen from both sides
C1_Witness ==
    /\ "b.py" \in Range(get_upstream(graph, "a.py"))
    /\ "a.py" \in Range(get_downstream(graph, "b.py"))
    /\ "a.py" \notin Range(get_upstream(graph, "b.py"))

\* C3: every key of edges and reverse_edges and every member of every edge
\* set is a node, so each path in to_dict()["edges"] is in to_dict()["nodes"];
\* a node may have no edges.
C3_EndpointsAreNodes ==
    /\ DOMAIN graph.edges \subseteq graph.nodes
    /\ DOMAIN graph.reverse_edges \subseteq graph.nodes
    /\ \A k \in DOMAIN graph.edges : graph.edges[k] \subseteq graph.nodes
    /\ \A k \in DOMAIN graph.reverse_edges : graph.reverse_edges[k] \subseteq graph.nodes
    /\ LET d == to_dict(graph)
       IN  \A k \in DOMAIN d.edges :
               k \in Range(d.nodes) /\ Range(d.edges[k]) \subseteq Range(d.nodes)

\* a graph with an edge and a node that has no edge in either direction
C3_Witness ==
    /\ DOMAIN graph.edges # {}
    /\ \E n \in graph.nodes :
          /\ n \notin DOMAIN graph.edges
          /\ n \notin DOMAIN graph.reverse_edges
          /\ \A k \in DOMAIN graph.edges : n \notin graph.edges[k]

(***************************************************************************)
(* Regular expressions (Python re), as far as the sources use them: a      *)
(* pattern is a sequence of literals and quantified character classes,     *)
(* matched by backtracking in Python's order (a greedy quantifier tries    *)
(* the longest run first, a lazy one the shortest).                        *)
(***************************************************************************)
Lit(s)        == [t |-> "lit", s |-> s]
One(cls)      == [t |-> "cls", cls |-> cls, min |-> 1, many |-> FALSE, greedy |-> TRUE,  cap |-> FALSE]
Star(cls)     == [t |-> "cls", cls |-> cls, min |-> 0, many |-> TRUE,  greedy |-> TRUE,  cap |-> FALSE]
Plus(cls)     == [t |-> "cls", cls |-> cls, min |-> 1, many |-> TRUE,  greedy |-> TRUE,  cap |-> FALSE]
LazyStar(cls) == [t |-> "cls", cls |-> cls, min |-> 0, many |-> TRUE,  greedy |-> FALSE, cap |-> FALSE]
CapPlus(cls)  == [t |-> "cls", cls |-> cls, min |-> 1, many |-> TRUE,  greedy |-> TRUE,  cap |-> TRUE]

WordChars ==
    {Ch(LowerChars, k) : k \in 1..Len(LowerChars)}
        \cup {Ch(UpperChars, k) : k \in 1..Len(UpperChars)}
        \cup {"0", "1", "2", "3", "4", "5", "6", "7", "8", "9", "_"}

\* "s" is \s, "w." is [\w.], "q" is ['"], "nq" is [^'"], "." is any
\* character but a newline (no re.DOTALL)
ClassHas(cls, c) ==
    CASE cls = "s"  -> c \in Whitespace
      [] cls = "w." -> c \in WordChars \cup {"."}
      [] cls = "q"  -> c \in {"'", "\""}
      [] cls = "nq" -> c \notin {"'", "\""}
      [] cls = "."  -> c # "\n"

\* the number of consecutive characters of s from position pos in the class
RunLen(s, pos, cls) ==
    LET bad == {k \in pos..Len(s) : ~ClassHas(cls, Ch(s, k))}
    IN  IF bad = {} THEN Len(s) - pos + 1 ELSE SetMin(bad) - pos

NoMatch == [ok |-> FALSE, end |-> 0, grp |-> ""]

RECURSIVE MatchFrom(_, _, _, _)
RECURSIVE TryLens(_, _, _, _, _, _, _)

\* match pat against s from position pos; grp is group 1 so far
MatchFrom(pat, s, pos, grp) ==
    IF pat = <<>> THEN [ok |-> TRUE, end |-> pos, grp |-> grp]
    ELSE LET e == Head(pat) IN
         IF e.t = "lit"
         THEN IF MatchesAt(s, e.s, pos)
              THEN MatchFrom(Tail(pat), s, pos + Len(e.s), grp)
              ELSE NoMatch
         ELSE LET run == RunLen(s, pos, e.cls)
                  hi  == IF e.many \/ run = 0 THEN run ELSE 1
              IN  IF hi < e.min THEN NoMatch
                  ELSE IF e.greedy THEN TryLens(pat, s, pos, grp, hi, e.min, -1)
                  ELSE TryLens(pat, s, pos, grp, e.min, hi, 1)

\* let the first element of pat take n characters, then n + step, ... stop
TryLens(pat, s, pos, grp, n, stop, step) ==
    LET e == Head(pat)
        g == IF e.cap THEN SubSeq(s, pos, pos + n - 1) ELSE grp
        r == MatchFrom(Tail(pat), s, pos + n, g)
    IN  IF r.ok THEN r
        ELSE IF n = stop THEN NoMatch
        ELSE TryLens(pat, s, pos, grp, n + step, stop, step)

\* re.match(pat, s)
re_match(pat, s) == MatchFrom(pat, s, 1, "")

\* re.search(pat, s) is not None
re_search(pat, s) == \E pos \in 1..(Len(s) + 1) : MatchFrom(pat, s, pos, "").ok

LowerPat(pat) ==
    [k \in 1..Len(pat) |->
        IF pat[k].t = "lit" THEN Lit(Lower(pat[k].s)) ELSE pat[k]]

\* re.search(pat, s, re.IGNORECASE) is not None
re_search_ignorecase(pat, s) == re_search(LowerPat(pat), Lower(s))

\* re.findall(pat, s) for a pattern with one group, scanning from pos
RECURSIVE FindAllFrom(_, _, _)
FindAllFrom(pat, s, pos) ==
    LET hits == {p \in pos..(Len(s) + 1) : MatchFrom(pat, s, p, "").ok}
    IN  IF hits = {} THEN <<>>
        ELSE LET p == SetMin(hits)
                 m == MatchFrom(pat, s, p, "")
             IN  <<m.grp>> \o FindAllFrom(pat, s, IF m.end > p THEN m.end ELSE p + 1)

re_findall(pat, s) == FindAllFrom(pat, s, 1)

(***************************************************************************)
(* Import extraction and resolution (graph/dependency_graph.py).           *)
(***************************************************************************)
PythonImportPatterns ==
    << <<Lit("import"), Plus("s"), CapPlus("w.")>>,
       <<Lit("from"), Plus("s"), CapPlus("w."), Plus("s"), Lit("import")>> >>

JsImportPatterns ==
    << <<Lit("import"), Plus("s"), LazyStar("."), Lit("from"), Plus("s"),
         One("q"), CapPlus("nq"), One("q")>>,
       <<Lit("require"), Star("s"), Lit("("), One("q"), CapPlus("nq"), One("q"), Lit(")")>>,
       <<Lit("import"), Star("s"), Lit("("), One("q"), CapPlus("nq"), One("q"), Lit(")")>> >>

\* the top-level module a line imports, as a set of at most one name: the
\* first pattern that matches the stripped line decides
LineImport(line) ==
    LET l  == Strip(line)
        m1 == re_match(PythonImportPatterns[1], l)
        m2 == re_match(PythonImportPatterns[2], l)
    IN  IF m1.ok THEN {Split(m1.grp, ".")[1]}
        ELSE IF m2.ok THEN {Split(m2.grp, ".")[1]}
        ELSE {}

\* _extract_python_imports: list(set(imports)), as the set
extract_python_imports(content) ==
    LET lines == Split(content, "\n")
    IN  UNION {LineImport(lines[k]) : k \in 1..Len(lines)}

\* the package a JavaScript module specifier names, none for a relative one
JsPackage(match) ==
    IF StartsWith(match, ".") \/ StartsWith(match, "/") THEN {}
    ELSE LET parts   == Split(match, "/")
             package == parts[1]
         IN  IF StartsWith(package, "@") /\ Contains(match, "/")
             THEN {parts[1] \o "/" \o parts[2]}
             ELSE {package}

\* _extract_js_imports: list(set(imports)), as the set
extract_js_imports(content) ==
    UNION {JsPackage(m) :
             m \in UNION {Range(re_findall(JsImportPatterns[k], content)) : k \in 1..3}}

\* _normalize_path
normalize_path(file_path) ==
    LET stem == IF Contains(file_path, ".") THEN RSplit1(file_path, ".")[1]
                ELSE file_path
        parts == Split(stem, "/")
        Join[k \in 1..Len(parts)] ==
            IF k = 1 THEN parts[1] ELSE Join[k - 1] \o "." \o parts[k]
    IN  Join[Len(parts)]

\* d[k] = v on a dict kept as a list of [k, v] in insertion order: a key
\* that exists keeps its place and takes the new value
DictPut(d, k, v) ==
    IF \E n \in 1..Len(d) : d[n].k = k
    THEN [n \in 1..Len(d) |-> IF d[n].k = k THEN [k |-> k, v |-> v] ELSE d[n]]
    ELSE Append(d, [k |-> k, v |-> v])

\* {_normalize_path(f): f for f in all_files}
RECURSIVE NormalizedFiles(_)
NormalizedFiles(all_files) ==
    IF all_files = <<>> THEN <<>>
    ELSE LET n == Len(all_files)
         IN  DictPut(NormalizedFiles(SubSeq(all_files, 1, n - 1)),
                     normalize_path(all_files[n]), all_files[n])

None        == [found |-> FALSE, file |-> ""]
Found(file) == [found |-> TRUE, file |-> file]

\* _resolve_import_to_file with the direct match only: an import name is
\* resolved when it is itself a path of the list
resolve_import_direct_only(import_name, all_files) ==
    IF \E n \in 1..Len(all_files) : all_files[n] = import_name
    THEN Found(import_name)
    ELSE None

\* _resolve_import_to_file with the partial match tried first
resolve_import_loose_first(import_name, all_files) ==
    LET normalized_files == NormalizedFiles(all_files)
        partial == {n \in 1..Len(normalized_files) :
                      \/ Contains(normalized_files[n].k, import_name)
                      \/ EndsWith(normalized_files[n].k, import_name)}
    IN  IF partial # {} THEN Found(normalized_files[SetMin(partial)].v)
        ELSE IF \E n \in 1..Len(normalized_files) : normalized_files[n].v = import_name
        THEN Found(import_name)
        ELSE None

\* _resolve_import_to_file
resolve_import_to_file(import_name, all_files) ==
    LET normalized_files == NormalizedFiles(all_files)
        partial == {n \in 1..Len(normalized_files) :
                      \/ Contains(normalized_files[n].k, import_name)
                      \/ EndsWith(normalized_files[n].k, import_name)}
    IN  IF \E n \in 1..Len(normalized_files) : normalized_files[n].v = import_name
        THEN Found(import_name)
        ELSE IF \E n \in 1..Len(normalized_files) : normalized_files[n].k = import_name
        THEN Found((CHOOSE e \in Range(normalized_files) : e.k = import_name).v)
        ELSE IF partial # {} THEN Found(normalized_files[SetMin(partial)].v)
        ELSE None

\* EdgeTargets without the comparison of resolved_file with file_path
EdgeTargetsKeepSelf(file_path, imports, all_file_paths) ==
    {r.file : r \in {x \in {resolve_import_to_file(n, all_file_paths) : n \in imports} :
                       x.found /\ x.file # ""}}

\* the resolved_file values that are truthy and differ from file_path
EdgeTargets(file_path, imports, all_file_paths) ==
    {r.file : r \in {x \in {resolve_import_to_file(n, all_file_paths) : n \in imports} :
                       x.found /\ x.file # "" /\ x.file # file_path}}

RECURSIVE AddEdges(_, _, _)
AddEdges(g, from_node, targets) ==
    IF targets = {} THEN g
    ELSE LET t == CHOOSE x \in targets : TRUE
         IN  AddEdges(add_edge(g, from_node, t), from_node, targets \ {t})

FileImports(file_path, content) ==
    IF EndsWith(file_path, ".py") THEN extract_python_imports(content)
    ELSE IF \E ext \in {".js", ".jsx", ".ts", ".tsx"} : EndsWith(file_path, ext)
    THEN extract_js_imports(content)
    ELSE {}

\* one iteration of the loop of build_dependency_graph, for a file that is
\* not skipped
BuildFile(g, file_obj, all_file_paths) ==
    AddEdges(add_node(g, file_obj.path), file_obj.path,
             EdgeTargets(file_obj.path, FileImports(file_obj.path, file_obj.content),
                         all_file_paths))

Skipped(file_obj) == file_obj.path = "" \/ file_obj.content = ""

AllFilePaths(fs) == [k \in 1..Len(fs) |-> fs[k].path]

\* build_dependency_graph, the whole function
RECURSIVE BuildPrefix(_, _)
BuildPrefix(fs, n) ==
    IF n = 0 THEN NewGraph
    ELSE IF Skipped(fs[n]) THEN BuildPrefix(fs, n - 1)
    ELSE BuildFile(BuildPrefix(fs, n - 1), fs[n], AllFilePaths(fs))

build_dependency_graph(fs) == BuildPrefix(fs, Len(fs))

(***************************************************************************)
(* SpecBuild: build_dependency_graph run on a file list, one loop          *)
(* iteration per step.  A record without a "path" or "content" key reads   *)
(* as "" (file_obj.get(key, "")).                                          *)
(***************************************************************************)
File(path, content) == [path |-> path, content |-> content]

BuildPool ==
    { File("a.py", "import b\nfrom pkg.c import f"),
      File("a.py", "import b"),
      File("b.py", ""),
      File("b.py", "x = 1"),
      File("pkg/c.py", "import c\nimport a.x, os"),
      File("web/a.js", "import x from 'b'\nconst y = require('./a')"),
      File("", "import a") }

InitBuild ==
    /\ files \in ListsUpTo(BuildPool, MaxFiles)
    /\ pc = "build"
    /\ i = 1
    /\ IdleGraph
    /\ IdleEntry /\ IdleFlow /\ IdleFolders /\ IdleLang
    /\ IdleStack

BuildSkip ==
    /\ pc = "build"
    /\ i <= Len(files)
    /\ Skipped(files[i])
    /\ i' = i + 1
    /\ UNCHANGED <<files, pc, graphVars, entryVars, flowVars, folderVars, langVars, stackVars>>

BuildStep ==
    /\ pc = "build"
    /\ i <= Len(files)
    /\ ~Skipped(files[i])
    /\ graph' = BuildFile(graph, files[i], AllFilePaths(files))
    /\ i' = i + 1
    /\ UNCHANGED <<files, pc, ret, calls, entryVars, flowVars, folderVars, langVars, stackVars>>

BuildReturn ==
    /\ pc = "build"
    /\ i > Len(files)
    /\ pc' = "done"
    /\ UNCHANGED <<files, i, graphVars, entryVars, flowVars, folderVars, langVars, stackVars>>

NextBuild == BuildSkip \/ BuildStep \/ BuildReturn

SpecBuild == InitBuild /\ [][NextBuild]_vars

\* the files of the list whose import resolves to the importing file itself
SelfImporters(fs) ==
    {k \in 1..Len(fs) :
        /\ ~Skipped(fs[k])
        /\ \E n \in FileImports(fs[k].path, fs[k].content) :
              resolve_import_to_file(n, AllFilePaths(fs)) = Found(fs[k].path)}

\* C2: the graph build_dependency_graph returns has no self-loop: no node B
\* is in get_upstream(B), also when an import of B resolves to B itself.
C2_NoSelfLoop ==
    pc = "done" =>
        \A b \in graph.nodes \cup Range(AllFilePaths(files)) :
            b \notin Range(get_upstream(graph, b))

\* a finished build over a list in which a file imports itself and which
\* has recorded some other edge
C2_Witness ==
    /\ pc = "done"
    /\ SelfImporters(files) # {}
    /\ DOMAIN graph.edges # {}

(***************************************************************************)
(* Stack detection (analysis/stack_detector.py): detect_frameworks.        *)
(***************************************************************************)
\* FRAMEWORK_PATTERNS, in dict order; a pattern group a rule does not have is the empty list
FRAMEWORK_PATTERNS ==
    << [name |-> "Flask",
        imports |-> <<"flask", "from flask">>,
        dependencies |-> <<"flask">>,
        files |-> <<"app.py", "wsgi.py">>],
       [name |-> "Django",
        imports |-> <<"django", "from django">>,
        dependencies |-> <<"django">>,
        files |-> <<"manage.py", "settings.py", "wsgi.py">>],
       [name |-> "FastAPI",
        imports |-> <<"fastapi", "from fastapi">>,
        dependencies |-> <<"fastapi">>,
        files |-> <<>>],
       [name |-> "Tornado",
        imports |-> <<"tornado", "from tornado">>,
        dependencies |-> <<"tornado">>,
        files |-> <<>>],
       [name |-> "Express",
        imports |-> <<"express", "require('express')", "require(\"express\")">>,
        dependencies |-> <<"express">>,
        files |-> <<>>],
       [name |-> "NestJS",
        imports |-> <<"@nestjs", "from '@nestjs">>,
        dependencies |-> <<"@nestjs/core", "@nestjs/common">>,
        files |-> <<"nest-cli.json">>],
       [name |-> "Koa",
        imports |-> <<"koa", "require('koa')", "require(\"koa\")">>,
        dependencies |-> <<"koa">>,
        files |-> <<>>],
       [name |-> "Hapi",
        imports |-> <<"@hapi/hapi", "require('@hapi/hapi')">>,
        dependencies |-> <<"@hapi/hapi">>,
        files |-> <<>>],
       [name |-> "React",
        imports |-> <<"react", "from 'react'", "from \"react\"">>,
        dependencies |-> <<"react", "react-dom">>,
        files |-> <<>>],
       [name |-> "Next.js",
        imports |-> <<>>,
        dependencies |-> <<"next">>,
        files |-> <<"next.config.js", "next.config.ts">>],
       [name |-> "Vue",
        imports |-> <<"vue", "from 'vue'", "from \"vue\"">>,
        dependencies |-> <<"vue">>,
        files |-> <<"vue.config.js">>],
       [name |-> "Angular",
        imports |-> <<"@angular", "from '@angular">>,
        dependencies |-> <<"@angular/core">>,
        files |-> <<"angular.json">>],
       [name |-> "Svelte",
        imports |-> <<>>,
        dependencies |-> <<"svelte">>,
        files |-> <<"svelte.config.js">>],
       [name |-> "PyTorch",
        imports |-> <<"torch", "import torch", "from torch">>,
        dependencies |-> <<"torch", "pytorch">>,
        files |-> <<>>],
       [name |-> "TensorFlow",
        imports |-> <<"tensorflow", "import tensorflow", "from tensorflow">>,
        dependencies |-> <<"tensorflow", "tensorflow-gpu">>,
        files |-> <<>>],
       [name |-> "Scikit-learn",
        imports |-> <<"sklearn", "from sklearn">>,
        dependencies |-> <<"scikit-learn">>,
        files |-> <<>>] >>

\* _check_imports
check_imports(content, patterns) ==
    LET content_lower == Lower(content)
    IN  \E k \in 1..Len(patterns) : Contains(content_lower, Lower(patterns[k]))

\* _check_dependencies
check_dependencies(file_path, content, patterns) ==
    \/ /\ Contains(file_path, "requirements.txt")
       /\ \E k \in 1..Len(patterns) : Contains(Lower(content), Lower(patterns[k]))
    \/ /\ Contains(file_path, "pyproject.toml")
       /\ \E k \in 1..Len(patterns) : Contains(Lower(content), Lower(patterns[k]))
    \/ /\ Contains(file_path, "package.json")
       /\ \E k \in 1..Len(patterns) :
             \/ Contains(content, "\"" \o patterns[k] \o "\"")
             \/ Contains(content, "'" \o patterns[k] \o "'")

\* the loop body without the test of the rule's file names
FrameworkFiresNoFiles(patterns, file_obj) ==
    \/ check_imports(file_obj.content, patterns.imports)
    \/ check_dependencies(file_obj.path, file_obj.content, patterns.dependencies)

\* the body of the loop of detect_frameworks: one rule against one file
FrameworkFires(patterns, file_obj) ==
    \/ check_imports(file_obj.content, patterns.imports)
    \/ check_dependencies(file_obj.path, file_obj.content, patterns.dependencies)
    \/ \E k \in 1..Len(patterns.files) : Contains(file_obj.path, patterns.files[k])

\* detect_frameworks
detect_frameworks(fs) ==
    Sorted({FRAMEWORK_PATTERNS[r].name :
              r \in {r \in 1..Len(FRAMEWORK_PATTERNS) :
                       \E k \in 1..Len(fs) : FrameworkFires(FRAMEWORK_PATTERNS[r], fs[k])}})

(***************************************************************************)
(* Entry points (analysis/entrypoint_finder.py).                           *)
(***************************************************************************)
\* ENTRYPOINT_FILES, in dict order
ENTRYPOINT_FILES ==
    << [language |-> "Python", files |-> <<"main.py", "app.py", "wsgi.py", "asgi.py", "run.py", "__main__.py">>],
       [language |-> "JavaScript", files |-> <<"index.js", "server.js", "app.js", "main.js">>],
       [language |-> "TypeScript", files |-> <<"index.ts", "server.ts", "app.ts", "main.ts">>],
       [language |-> "Go", files |-> <<"main.go">>],
       [language |-> "Java", files |-> <<"Main.java", "Application.java">>],
       [language |-> "Rust", files |-> <<"main.rs">>] >>

\* FRAMEWORK_ENTRYPOINT_PATTERNS, in dict order
FRAMEWORK_ENTRYPOINT_PATTERNS ==
    << [framework |-> "Flask",
        patterns |->
          << <<Lit("app"), Star("s"), Lit("="), Star("s"), Lit("Flask(")>>,
             <<Lit("@app.route(")>>,
             <<Lit("if"), Plus("s"), Lit("__name__"), Star("s"), Lit("=="), Star("s"), One("q"), Lit("__main__"), One("q"), Star("."), Lit("app.run(")>> >>],
       [framework |-> "FastAPI",
        patterns |->
          << <<Lit("app"), Star("s"), Lit("="), Star("s"), Lit("FastAPI(")>>,
             <<Lit("@app.get(")>>,
             <<Lit("@app.post(")>>,
             <<Lit("uvicorn.run(")>> >>],
       [framework |-> "Django",
        patterns |->
          << <<Lit("DJANGO_SETTINGS_MODULE")>>,
             <<Lit("from"), Plus("s"), Lit("django.core.wsgi"), Plus("s"), Lit("import"), Plus("s"), Lit("get_wsgi_application")>>,
             <<Lit("from"), Plus("s"), Lit("django.core.asgi"), Plus("s"), Lit("import"), Plus("s"), Lit("get_asgi_application")>> >>],
       [framework |-> "Express",
        patterns |->
          << <<Lit("express()")>>,
             <<Lit("app.listen(")>>,
             <<Lit("const"), Plus("s"), Lit("app"), Star("s"), Lit("="), Star("s"), Lit("express(")>>,
             <<Lit("var"), Plus("s"), Lit("app"), Star("s"), Lit("="), Star("s"), Lit("express(")>> >>],
       [framework |-> "NestJS",
        patterns |->
          << <<Lit("NestFactory.create")>>,
             <<Lit("@Module(")>>,
             <<Lit("bootstrap()")>> >>] >>


\* _check_framework_patterns, for the n-th framework of the table
check_framework_patterns(content, n) ==
    \E k \in 1..Len(FRAMEWORK_ENTRYPOINT_PATTERNS[n].patterns) :
        re_search_ignorecase(FRAMEWORK_ENTRYPOINT_PATTERNS[n].patterns[k], content)

\* _extract_docker_entrypoints
RECURSIVE DockerLines(_)
DockerLines(lines) ==
    IF lines = <<>> THEN <<>>
    ELSE LET line == Strip(Head(lines))
         IN  (IF StartsWith(line, "CMD") THEN <<line>> ELSE <<>>)
             \o (IF StartsWith(line, "ENTRYPOINT") THEN <<line>> ELSE <<>>)
             \o DockerLines(Tail(lines))

extract_docker_entrypoints(content) == DockerLines(Split(content, "\n"))

\* path.split("/")[-1] if "/" in path else path, comparing the whole path
FilenameWholePath(path) == path

\* filename = path.split("/")[-1] if "/" in path else path
Filename(path) == IF Contains(path, "/") THEN Last(Split(path, "/")) ELSE path

\* the records the loop over ENTRYPOINT_FILES appends for one file
RECURSIVE ApplicationRecords(_, _, _)
ApplicationRecords(path, filename, n) ==
    IF n > Len(ENTRYPOINT_FILES) THEN <<>>
    ELSE (IF filename \in Range(ENTRYPOINT_FILES[n].files)
          THEN <<[path |-> path, type |-> ENTRYPOINT_FILES[n].language,
                  filename |-> filename]>>
          ELSE <<>>)
         \o ApplicationRecords(path, filename, n + 1)

\* the records the loop over FRAMEWORK_ENTRYPOINT_PATTERNS appends
RECURSIVE FrameworkRecords(_, _, _)
FrameworkRecords(path, content, n) ==
    IF n > Len(FRAMEWORK_ENTRYPOINT_PATTERNS) THEN <<>>
    ELSE (IF check_framework_patterns(content, n)
          THEN <<[path |-> path,
                  framework |-> FRAMEWORK_ENTRYPOINT_PATTERNS[n].framework]>>
          ELSE <<>>)
         \o FrameworkRecords(path, content, n + 1)

\* the records appended for the Docker directives of one file
DockerRecords(path, filename, content) ==
    IF filename = "Dockerfile" \/ Contains(path, "Dockerfile")
    THEN LET entries == extract_docker_entrypoints(content)
         IN  [k \in 1..Len(entries) |-> [path |-> path, command |-> entries[k]]]
    ELSE <<>>

EmptyResult ==
    [application_files |-> <<>>, framework_entrypoints |-> <<>>,
     docker_entrypoints |-> <<>>]

\* one iteration of the loop of find_entrypoints
EntryFile(res, file_obj) ==
    LET path     == file_obj.path
        filename == Filename(path)
    IN  [application_files |->
             res.application_files \o ApplicationRecords(path, filename, 1),
         framework_entrypoints |->
             res.framework_entrypoints \o FrameworkRecords(path, file_obj.content, 1),
         docker_entrypoints |->
             res.docker_entrypoints \o DockerRecords(path, filename, file_obj.content)]

\* {f["path"]: f for f in records}, as a list of [k, v] in insertion order
RECURSIVE ByPath(_)
ByPath(records) ==
    IF records = <<>> THEN <<>>
    ELSE LET n == Len(records)
         IN  DictPut(ByPath(SubSeq(records, 1, n - 1)), records[n].path, records[n])

\* list({f["path"]: f for f in records}.values())
DedupByPath(records) ==
    LET d == ByPath(records) IN [k \in 1..Len(d) |-> d[k].v]

\* the last two statements of find_entrypoints
Deduplicated(res) ==
    [application_files     |-> DedupByPath(res.application_files),
     framework_entrypoints |-> DedupByPath(res.framework_entrypoints),
     docker_entrypoints    |-> res.docker_entrypoints]

\* the three lists after the loop over the first n files
RECURSIVE EntryPrefix(_, _)
EntryPrefix(fs, n) ==
    IF n = 0 THEN EmptyResult ELSE EntryFile(EntryPrefix(fs, n - 1), fs[n])

\* find_entrypoints, the whole function
find_entrypoints(fs) == Deduplicated(EntryPrefix(fs, Len(fs)))

(***************************************************************************)
(* SpecEntry: the analysis run of ui/app.py as far as entry points go:     *)
(* detect_frameworks(files), then find_entrypoints(files), one loop        *)
(* iteration per step and the deduplication as the last step.              *)
(***************************************************************************)
ScenarioApp  == File("src/app.py", "from flask import Flask\napp.run()")
ScenarioReqs == File("requirements.txt", "flask==2.0")

EntryPool ==
    { ScenarioApp,
      ScenarioReqs,
      File("api/main.py", "app = Flask(__name__)\n@app.get('/')"),
      File("Dockerfile", "FROM python\nCMD [\"python\"]\n  ENTRYPOINT [\"run\"]"),
      File("web/server.js", "const app = express()\napp.listen(3000)") }

InitEntry ==
    /\ files \in ListsUpTo(EntryPool, MaxFiles)
    /\ pc = "detect"
    /\ i = 1
    /\ IdleEntry
    /\ IdleGraph /\ IdleFlow /\ IdleFolders /\ IdleLang
    /\ IdleStack

DetectFrameworks ==
    /\ pc = "detect"
    /\ detected' = detect_frameworks(files)
    /\ result' = EmptyResult
    /\ pc' = "find"
    /\ UNCHANGED <<files, i, graphVars, flowVars, folderVars, langVars, stackVars>>

EntryStep ==
    /\ pc = "find"
    /\ i <= Len(files)
    /\ result' = EntryFile(result, files[i])
    /\ i' = i + 1
    /\ UNCHANGED <<files, pc, detected, graphVars, flowVars, folderVars, langVars, stackVars>>

EntryDedup ==
    /\ pc = "find"
    /\ i > Len(files)
    /\ result' = Deduplicated(result)
    /\ pc' = "done"
    /\ UNCHANGED <<files, i, detected, graphVars, flowVars, folderVars, langVars, stackVars>>

NextEntry == DetectFrameworks \/ EntryStep \/ EntryDedup

SpecEntry == InitEntry /\ [][NextEntry]_vars

\* the records of a list that are the first of their path, in list order
KeepFirstByPath(records) ==
    LET first == {k \in 1..Len(records) :
                    \A j \in 1..(k - 1) : records[j].path # records[k].path}
        Pick[k \in 0..Len(records)] ==
            IF k = 0 THEN <<>>
            ELSE IF k \in first THEN Append(Pick[k - 1], records[k])
            ELSE Pick[k - 1]
    IN  Pick[Len(records)]

\* C4: find_entrypoints deduplicates application_files and
\* framework_entrypoints by path, keeping for each path the first record
\* discovered, in discovery order.
C4_FirstRecordKept ==
    pc = "done" =>
        LET raw == EntryPrefix(files, Len(files))
        IN  /\ result.application_files = KeepFirstByPath(raw.application_files)
            /\ result.framework_entrypoints = KeepFirstByPath(raw.framework_entrypoints)

ScenarioPresent == ScenarioApp \in Range(files) /\ ScenarioReqs \in Range(files)

\* C5 as stated: with src/app.py (from flask import Flask, app.run()) and
\* requirements.txt (flask==2.0) in the list, detect_frameworks reports Flask
\* and framework_entrypoints has a record with path src/app.py.
C5_ScenarioFrameworkEntrypoint ==
    (pc = "done" /\ ScenarioPresent) =>
        /\ "Flask" \in Range(detected)
        /\ \E r \in Range(result.framework_entrypoints) : r.path = "src/app.py"

\* C5 as amended: with the two scenario files in the list, detect_frameworks
\* reports Flask and application_files has a Python record with path
\* src/app.py; the content of src/app.py matches no framework bootstrap
\* pattern, so the file contributes no framework_entrypoints record.
C5_ScenarioApplicationFile ==
    (pc = "done" /\ ScenarioPresent) =>
        /\ "Flask" \in Range(detected)
        /\ \E r \in Range(result.application_files) :
              r.path = "src/app.py" /\ r.type = "Python" /\ r.filename = "app.py"
        /\ \A r \in Range(result.framework_entrypoints) : r.path # "src/app.py"
        /\ FrameworkRecords(ScenarioApp.path, ScenarioApp.content, 1) = <<>>

\* find_entrypoints has returned for a list holding both scenario files
C5_Witness == pc = "done" /\ files = <<ScenarioApp, ScenarioReqs>>

(***************************************************************************)
(* ExecutionFlow and build_execution_flow (graph/flow_builder.py).         *)
(***************************************************************************)
\* ExecutionFlow.__init__
NewFlow == [stages |-> <<>>, connections |-> <<>>]

\* add_stage that inserts the stage at the head of the list
add_stage_prepend(f, stage_id, stage_type, components, description) ==
    [f EXCEPT !.stages =
        <<[id |-> stage_id, type |-> stage_type,
           components |-> components, description |-> description]>> \o @]

\* ExecutionFlow.add_stage
add_stage(f, stage_id, stage_type, components, description) ==
    [f EXCEPT !.stages =
        Append(@, [id |-> stage_id, type |-> stage_type,
                   components |-> components, description |-> description])]

\* the connection recorded with its ends exchanged
add_connection_reversed(f, from_stage, to_stage, label) ==
    [f EXCEPT !.connections =
        Append(@, [from |-> to_stage, to |-> from_stage, label |-> label])]

\* ExecutionFlow.add_connection
add_connection(f, from_stage, to_stage, label) ==
    [f EXCEPT !.connections =
        Append(@, [from |-> from_stage, to |-> to_stage, label |-> label])]

\* [s["folder"] for s in folder_summaries if s["role"] in roles]
RECURSIVE FoldersWithRole(_, _)
FoldersWithRole(folder_summaries, roles) ==
    IF folder_summaries = <<>> THEN <<>>
    ELSE (IF Head(folder_summaries).role \in roles
          THEN <<Head(folder_summaries).folder>> ELSE <<>>)
         \o FoldersWithRole(Tail(folder_summaries), roles)

\* _identify_backend_components
identify_backend_components(folder_summaries, frameworks) ==
    FoldersWithRole(folder_summaries, {"backend", "api", "services"})

\* _identify_database_components
identify_database_components(folder_summaries, databases) ==
    FoldersWithRole(folder_summaries, {"database", "models"}) \o databases

\* _identify_frontend_components
identify_frontend_components(folder_summaries) ==
    FoldersWithRole(folder_summaries, {"frontend", "client", "ui"})

\* _identify_middleware_components
identify_middleware_components(folder_summaries) ==
    FoldersWithRole(folder_summaries, {"middleware", "utils", "utilities", "scripts"})

Paths(records) == [k \in 1..Len(records) |-> records[k].path]

\* all_entries = entry_files + framework_entries
AllEntries(in) ==
    Paths(in.entrypoints.application_files)
        \o Paths(in.entrypoints.framework_entrypoints)

\* q[:n]
Take(q, n) == SubSeq(q, 1, IF Len(q) < n THEN Len(q) ELSE n)

\* the number of entry paths the entry stage lists: all_entries[:5]
EntryLimit == 5

\* Stage 1 without the test of all_entries
StageEntryAlways(f, in) ==
    add_stage(f, "entry", "entry_point", Take(AllEntries(in), EntryLimit),
              "Application entry points")

\* Stage 1: Entry Points
StageEntry(f, in) ==
    IF AllEntries(in) # <<>>
    THEN add_stage(f, "entry", "entry_point", Take(AllEntries(in), EntryLimit),
                   "Application entry points")
    ELSE f

\* Stage 2: Frontend
StageFrontend(f, in) ==
    LET frontend_components == identify_frontend_components(in.folder_summaries)
        f1 == add_stage(f, "frontend", "frontend", frontend_components,
                        "Frontend/UI layer")
    IN  IF frontend_components = <<>> THEN f
        ELSE IF /\ AllEntries(in) # <<>>
                /\ \E k \in 1..Len(in.frameworks) :
                      in.frameworks[k] \in {"React", "Vue", "Angular", "Next.js", "Svelte"}
        THEN add_connection(f1, "entry", "frontend", "Renders UI")
        ELSE f1

\* Stage 3 with the entry stage looked at before the frontend stage
StageBackendEntryFirst(f, in) ==
    LET backend_components ==
            identify_backend_components(in.folder_summaries, in.frameworks)
        frontend_components == identify_frontend_components(in.folder_summaries)
        f1 == add_stage(f, "backend", "backend", backend_components,
                        "Backend services and APIs")
    IN  IF backend_components = <<>> THEN f
        ELSE IF AllEntries(in) # <<>>
        THEN add_connection(f1, "entry", "backend", "Processes requests")
        ELSE IF frontend_components # <<>>
        THEN add_connection(f1, "frontend", "backend", "API calls")
        ELSE f1

\* Stage 3: Backend/API
StageBackend(f, in) ==
    LET backend_components ==
            identify_backend_components(in.folder_summaries, in.frameworks)
        frontend_components == identify_frontend_components(in.folder_summaries)
        f1 == add_stage(f, "backend", "backend", backend_components,
                        "Backend services and APIs")
    IN  IF backend_components = <<>> THEN f
        ELSE IF frontend_components # <<>>
        THEN add_connection(f1, "frontend", "backend", "API calls")
        ELSE IF AllEntries(in) # <<>>
        THEN add_connection(f1, "entry", "backend", "Processes requests")
        ELSE f1

\* the number of middleware folders from which the stage is added
MiddlewareFloor == 2

\* Stage 4 as it would be if one middleware folder were enough
StageMiddlewareAnyFolder(f, in) ==
    LET middleware_components == identify_middleware_components(in.folder_summaries)
        backend_components ==
            identify_backend_components(in.folder_summaries, in.frameworks)
        f1 == add_stage(f, "middleware", "middleware", middleware_components,
                        "Middleware and utilities")
    IN  IF middleware_components = <<>>
        THEN f
        ELSE IF backend_components # <<>>
        THEN add_connection(f1, "backend", "middleware", "Uses utilities")
        ELSE f1

\* Stage 4: Middleware/Utils
StageMiddleware(f, in) ==
    LET middleware_components == identify_middleware_components(in.folder_summaries)
        backend_components ==
            identify_backend_components(in.folder_summaries, in.frameworks)
        f1 == add_stage(f, "middleware", "middleware", middleware_components,
                        "Middleware and utilities")
    IN  IF ~(middleware_components # <<>> /\ Len(middleware_components) >= MiddlewareFloor)
        THEN f
        ELSE IF backend_components # <<>>
        THEN add_connection(f1, "backend", "middleware", "Uses utilities")
        ELSE f1

\* Stage 5 with the connection from entry made without looking at all_entries
StageDatabaseNoEntryTest(f, in) ==
    LET db_components == identify_database_components(in.folder_summaries, in.databases)
        backend_components ==
            identify_backend_components(in.folder_summaries, in.frameworks)
        f1 == add_stage(f, "database", "database", db_components,
                        "Data persistence layer")
    IN  IF db_components = <<>> THEN f
        ELSE IF backend_components # <<>>
        THEN add_connection(f1, "backend", "database", "Data operations")
        ELSE add_connection(f1, "entry", "database", "Data operations")

\* Stage 5: Database
StageDatabase(f, in) ==
    LET db_components == identify_database_components(in.folder_summaries, in.databases)
        backend_components ==
            identify_backend_components(in.folder_summaries, in.frameworks)
        f1 == add_stage(f, "database", "database", db_components,
                        "Data persistence layer")
    IN  IF db_components = <<>> THEN f
        ELSE IF backend_components # <<>>
        THEN add_connection(f1, "backend", "database", "Data operations")
        ELSE IF AllEntries(in) # <<>>
        THEN add_connection(f1, "entry", "database", "Data operations")
        ELSE f1

\* Stage 6: External Services
StageExternal(f, in) ==
    LET external_services ==
            (IF \E k \in 1..Len(in.infrastructure) :
                   in.infrastructure[k] \in {"Docker", "Kubernetes"}
             THEN <<"Container orchestration">> ELSE <<>>)
            \o (IF "Redis" \in Range(in.databases)
                THEN <<"Redis (caching/queue)">> ELSE <<>>)
            \o (IF "Elasticsearch" \in Range(in.databases)
                THEN <<"Elasticsearch (search)">> ELSE <<>>)
        backend_components ==
            identify_backend_components(in.folder_summaries, in.frameworks)
        f1 == add_stage(f, "external", "external_services", external_services,
                        "External services and infrastructure")
    IN  IF external_services = <<>> THEN f
        ELSE IF backend_components # <<>>
        THEN add_connection(f1, "backend", "external", "External calls")
        ELSE f1

\* build_execution_flow, the whole function
build_execution_flow(in) ==
    StageExternal(StageDatabase(StageMiddleware(StageBackend(StageFrontend(
        StageEntry(NewFlow, in), in), in), in), in), in)

(***************************************************************************)
(* SpecFlow: build_execution_flow on its five arguments, one stage of the  *)
(* function per step.                                                      *)
(***************************************************************************)
MaxFolders == 3     \* length of folder_summaries

App(path, type) ==
    [path |-> path, type |-> type, filename |-> Filename(path)]
Fw(path, framework) == [path |-> path, framework |-> framework]

\* entrypoints arguments: none, one application file, and six entry paths
EntrypointChoices ==
    { EmptyResult,
      [EmptyResult EXCEPT !.application_files = <<App("main.py", "Python")>>],
      [EmptyResult EXCEPT
          !.application_files =
              <<App("a/main.py", "Python"), App("b/index.js", "JavaScript"),
                App("c/main.go", "Go"), App("d/main.rs", "Rust")>>,
          !.framework_entrypoints =
              <<Fw("a/main.py", "Flask"), Fw("e/srv.js", "Express")>>] }

FolderPool ==
    { [folder |-> "web",     role |-> "frontend"],
      [folder |-> "server",  role |-> "backend"],
      [folder |-> "scripts", role |-> "scripts"],
      [folder |-> "helpers", role |-> "utils"],
      [folder |-> "db",      role |-> "database"],
      [folder |-> "docs",    role |-> "docs"] }

FrameworkChoices      == {<<>>, <<"Flask", "React">>}
DatabaseChoices       == {<<>>, <<"PostgreSQL">>, <<"Elasticsearch", "Redis">>}
InfrastructureChoices == {<<>>, <<"Docker", "Terraform">>}

InitFlow ==
    /\ inputs \in [entrypoints      : EntrypointChoices,
                   folder_summaries : ListsUpTo(FolderPool, MaxFolders),
                   frameworks       : FrameworkChoices,
                   databases        : DatabaseChoices,
                   infrastructure   : InfrastructureChoices]
    /\ flow = NewFlow
    /\ files = NoFiles
    /\ pc = "entry"
    /\ i = 0
    /\ IdleGraph /\ IdleEntry /\ IdleFolders /\ IdleLang
    /\ IdleStack

FlowUnchanged == UNCHANGED <<files, i, inputs, graphVars, entryVars, folderVars, langVars, stackVars>>

FlowEntry ==
    /\ pc = "entry"
    /\ flow' = StageEntry(flow, inputs)
    /\ pc' = "frontend"
    /\ FlowUnchanged

FlowFrontend ==
    /\ pc = "frontend"
    /\ flow' = StageFrontend(flow, inputs)
    /\ pc' = "backend"
    /\ FlowUnchanged

FlowBackend ==
    /\ pc = "backend"
    /\ flow' = StageBackend(flow, inputs)
    /\ pc' = "middleware"
    /\ FlowUnchanged

FlowMiddleware ==
    /\ pc = "middleware"
    /\ flow' = StageMiddleware(flow, inputs)
    /\ pc' = "database"
    /\ FlowUnchanged

FlowDatabase ==
    /\ pc = "database"
    /\ flow' = StageDatabase(flow, inputs)
    /\ pc' = "external"
    /\ FlowUnchanged

FlowExternal ==
    /\ pc = "external"
    /\ flow' = StageExternal(flow, inputs)
    /\ pc' = "done"
    /\ FlowUnchanged

NextFlow ==
    \/ FlowEntry \/ FlowFrontend \/ FlowBackend
    \/ FlowMiddleware \/ FlowDatabase \/ FlowExternal

SpecFlow == InitFlow /\ [][NextFlow]_vars

StageIds(f) == [k \in 1..Len(f.stages) |-> f.stages[k].id]

\* C6: in the flow build_execution_flow returns, stage ids are pairwise
\* distinct and every connection's "from" and "to" is the id of a stage of
\* the flow.
C6_StageIdsUniqueConnectionsResolve ==
    pc = "done" =>
        /\ \A j, k \in 1..Len(flow.stages) :
              flow.stages[j].id = flow.stages[k].id => j = k
        /\ \A c \in Range(flow.connections) :
              c.from \in Range(StageIds(flow)) /\ c.to \in Range(StageIds(flow))

\* a returned flow with five stages and four connections
C6_Witness ==
    /\ pc = "done"
    /\ Len(flow.stages) = 5
    /\ Len(flow.connections) = 4

StageOrder == <<"entry", "frontend", "backend", "middleware", "database", "external">>

\* q is a subsequence of r: its elements occur in r in the same order
IsSubsequence(q, r) ==
    \E pos \in [1..Len(q) -> 1..Len(r)] :
        /\ \A k \in 1..Len(q) : r[pos[k]] = q[k]
        /\ \A j, k \in 1..Len(q) : j < k => pos[j] < pos[k]

\* C7: the stage ids of the returned flow, in list order, are a subsequence
\* of (entry, frontend, backend, middleware, database, external), whatever
\* the order of the folders in the input.
C7_StageOrderFixed ==
    pc = "done" => IsSubsequence(StageIds(flow), StageOrder)

\* a returned flow for folders given in the reverse of the stage order
C7_Witness ==
    /\ pc = "done"
    /\ Len(inputs.folder_summaries) = 3
    /\ inputs.folder_summaries[1].role = "database"
    /\ inputs.folder_summaries[2].role = "backend"
    /\ inputs.folder_summaries[3].role = "frontend"
    /\ StageIds(flow) = <<"frontend", "backend", "database">>

(***************************************************************************)
(* Folder classification (analysis/structure_analyzer.py).                 *)
(***************************************************************************)
\* FOLDER_PATTERNS, in dict order; every category has "names", and a category
\* without "frameworks" has the empty list
FOLDER_PATTERNS ==
    << [category |-> "frontend",
        names |-> <<"frontend", "client", "web", "ui", "app", "public", "static", "assets">>,
        frameworks |-> <<"components", "pages", "views", "styles", "hooks">>],
       [category |-> "backend",
        names |-> <<"backend", "server", "api", "services", "core", "src/api", "app/api">>,
        frameworks |-> <<"routes", "controllers", "models", "middleware", "handlers">>],
       [category |-> "config",
        names |-> <<"config", "configuration", "settings", "env">>,
        frameworks |-> <<>>],
       [category |-> "infrastructure",
        names |-> <<"infra", "infrastructure", "deploy", "deployment", "k8s", "kubernetes", "docker", ".github", ".gitlab">>,
        frameworks |-> <<>>],
       [category |-> "scripts",
        names |-> <<"scripts", "bin", "tools", "utils", "utilities">>,
        frameworks |-> <<>>],
       [category |-> "tests",
        names |-> <<"tests", "test", "__tests__", "spec", "specs">>,
        frameworks |-> <<>>],
       [category |-> "docs",
        names |-> <<"docs", "documentation", "doc">>,
        frameworks |-> <<>>],
       [category |-> "database",
        names |-> <<"database", "db", "migrations", "seeds", "fixtures">>,
        frameworks |-> <<>>] >>

FRONTEND_EXTENSIONS == {".css", ".html", ".jsx", ".sass", ".scss", ".svelte", ".tsx", ".vue"}
BACKEND_EXTENSIONS == {".go", ".java", ".php", ".py", ".rb", ".rs"}
CONFIG_EXTENSIONS == {".config", ".env", ".ini", ".json", ".toml", ".yaml", ".yml"}
SCRIPT_EXTENSIONS == {".bash", ".ps1", ".sh", ".zsh"}

\* _get_folder_from_path
get_folder_from_path(path) ==
    IF ~Contains(path, "/") THEN "" ELSE Split(path, "/")[1]

\* _classify_by_name
classify_by_name(folder) ==
    LET folder_lower == Lower(folder)
        hits == {c \in 1..Len(FOLDER_PATTERNS) :
                   \E k \in 1..Len(FOLDER_PATTERNS[c].names) :
                       Contains(folder_lower, FOLDER_PATTERNS[c].names[k])}
    IN  IF hits = {} THEN "misc" ELSE FOLDER_PATTERNS[SetMin(hits)].category

\* the files of a folder taken to be all files of the list
FolderFilesAll(folder, fs) == fs

\* [f for f in files if f.get("path", "").startswith(folder + "/")]
FolderFiles(folder, fs) ==
    SelectSeq(fs, LAMBDA f : StartsWith(f.path, folder \o "/"))

\* extension = "." + path.rsplit(".", 1)[-1] if "." in path else ""
Extension(path) ==
    IF Contains(path, ".") THEN "." \o Last(RSplit1(path, ".")) ELSE ""

\* the number of files of the list whose extension is in the set
CountExt(folder_files, exts) ==
    Cardinality({k \in 1..Len(folder_files) : Extension(folder_files[k].path) \in exts})

\* f"/{pattern}/" in path_lower or path_lower.endswith(f"/{pattern}")
PathHasSegment(path_lower, pattern) ==
    \/ Contains(path_lower, "/" \o pattern \o "/")
    \/ EndsWith(path_lower, "/" \o pattern)

\* the flag as it would be if every file assigned it: the last file decides
HasPatternLastOnly(folder_files, patterns) ==
    /\ folder_files # <<>>
    /\ LET path_lower == Lower(Last(folder_files).path)
       IN  \E p \in 1..Len(patterns) : PathHasSegment(path_lower, patterns[p])

\* has_frontend_patterns / has_backend_patterns after the loop over the files
HasPattern(folder_files, patterns) ==
    \E k \in 1..Len(folder_files) :
        LET path_lower == Lower(folder_files[k].path)
        IN  \E p \in 1..Len(patterns) : PathHasSegment(path_lower, patterns[p])

\* the test as it would be if half of the files were enough
MajorityOrHalf(count, n) == 2 * count >= n

\* count > len(folder_files) * 0.5
Majority(count, n) == 2 * count > n

\* _classify_by_content
classify_by_content(folder, fs) ==
    LET folder_files   == FolderFiles(folder, fs)
        frontend_count == CountExt(folder_files, FRONTEND_EXTENSIONS)
        backend_count  == CountExt(folder_files, BACKEND_EXTENSIONS)
        config_count   == CountExt(folder_files, CONFIG_EXTENSIONS)
        script_count   == CountExt(folder_files, SCRIPT_EXTENSIONS)
        has_frontend_patterns == HasPattern(folder_files, FOLDER_PATTERNS[1].frameworks)
        has_backend_patterns  == HasPattern(folder_files, FOLDER_PATTERNS[2].frameworks)
    IN  IF folder_files = <<>> THEN "misc"
        ELSE IF has_frontend_patterns
                 \/ (frontend_count > backend_count /\ frontend_count > 2)
        THEN "frontend"
        ELSE IF has_backend_patterns
                 \/ (backend_count > frontend_count /\ backend_count > 2)
        THEN "backend"
        ELSE IF Majority(config_count, Len(folder_files)) THEN "config"
        ELSE IF Majority(script_count, Len(folder_files)) THEN "scripts"
        ELSE "misc"

\* the entry as it would be if the content of the folder were consulted first
\* and the name only when the content says nothing
FolderRowContentFirst(folder, fs) ==
    LET content_classification == classify_by_content(folder, fs)
    IN  [folder     |-> folder,
         role       |-> IF content_classification = "misc"
                        THEN classify_by_name(folder)
                        ELSE content_classification,
         file_count |-> Len(FolderFiles(folder, fs))]

\* the entry classify_folders stores for one folder
FolderRow(folder, fs) ==
    LET name_classification == classify_by_name(folder)
    IN  [folder     |-> folder,
         role       |-> IF name_classification = "misc"
                        THEN classify_by_content(folder, fs)
                        ELSE name_classification,
         file_count |-> Len(FolderFiles(folder, fs))]

\* the set folders after the first loop of classify_folders
FolderSet(fs) ==
    {get_folder_from_path(fs[k].path) : k \in 1..Len(fs)} \ {""}

\* classify_folders, the whole function: the mapping as the list of its
\* entries in key order
classify_folders(fs) ==
    LET order == Sorted(FolderSet(fs))
    IN  [k \in 1..Len(order) |-> FolderRow(order[k], fs)]

(***************************************************************************)
(* SpecFolders: classify_folders on a file list: the loop that collects    *)
(* the folders, then one folder of sorted(folders) per step.               *)
(***************************************************************************)
MaxTreeFiles == 3   \* length of the file list given to classify_folders

TreePool ==
    { File("src/a.py", "x"), File("src/Models/c.go", "z"), File("etc/k.yaml", "k"),
      File("frontend/models/m.py", "m"), File("web-api/x.py", "w"), File("", "d") }

InitFolders ==
    /\ files \in ListsUpTo(TreePool, MaxTreeFiles)
    /\ pc = "collect"
    /\ i = 1
    /\ folders = {}
    /\ classifications = <<>>
    /\ IdleGraph /\ IdleEntry /\ IdleFlow /\ IdleLang
    /\ IdleStack

FolderCollect ==
    /\ pc = "collect"
    /\ i <= Len(files)
    /\ LET folder == get_folder_from_path(files[i].path)
       IN  folders' = IF folder # "" THEN folders \cup {folder} ELSE folders
    /\ i' = i + 1
    /\ UNCHANGED <<files, pc, classifications, graphVars, entryVars, flowVars, langVars, stackVars>>

FolderSort ==
    /\ pc = "collect"
    /\ i > Len(files)
    /\ pc' = "classify"
    /\ i' = 1
    /\ UNCHANGED <<files, folders, classifications, graphVars, entryVars, flowVars, langVars, stackVars>>

FolderClassify ==
    /\ pc = "classify"
    /\ i <= Len(Sorted(folders))
    /\ classifications' = Append(classifications, FolderRow(Sorted(folders)[i], files))
    /\ i' = i + 1
    /\ UNCHANGED <<files, pc, folders, graphVars, entryVars, flowVars, langVars, stackVars>>

FolderReturn ==
    /\ pc = "classify"
    /\ i > Len(Sorted(folders))
    /\ pc' = "done"
    /\ UNCHANGED <<files, i, folders, classifications, graphVars, entryVars, flowVars, langVars, stackVars>>

NextFolders == FolderCollect \/ FolderSort \/ FolderClassify \/ FolderReturn

SpecFolders == InitFolders /\ [][NextFolders]_vars

\* the lists that hold the records of fs in some order
Shuffles(fs) ==
    {[k \in 1..Len(fs) |-> fs[p[k]]] : p \in Permutations(1..Len(fs))}

\* C8: classify_folders returns the same mapping (folders, role and
\* file_count of each, key order) for every permutation of the file list.
C8_ClassifyOrderIndependent ==
    pc = "done" => \A shuffled \in Shuffles(files) : classify_folders(shuffled) = classifications

\* a finished run on three files of two folders, given out of folder order,
\* with a folder classified as backend by the content of its two files
C8_Witness ==
    /\ pc = "done"
    /\ Len(files) = 3
    /\ Len(classifications) = 2
    /\ StrLess(get_folder_from_path(files[3].path), get_folder_from_path(files[1].path))
    /\ \E k \in 1..2 :
          /\ classify_by_name(classifications[k].folder) = "misc"
          /\ classifications[k].role = "backend"
          /\ classifications[k].file_count = 2

(***************************************************************************)
(* Language statistics (analysis/language_detector.py).                    *)
(***************************************************************************)
EXTENSION_TO_LANGUAGE ==
    (".py" :> "Python") @@ (".pyx" :> "Python") @@ (".pyi" :> "Python")
    @@ (".js" :> "JavaScript") @@ (".jsx" :> "JavaScript") @@ (".mjs" :> "JavaScript")
    @@ (".cjs" :> "JavaScript") @@ (".ts" :> "TypeScript") @@ (".tsx" :> "TypeScript")
    @@ (".java" :> "Java") @@ (".go" :> "Go") @@ (".rs" :> "Rust")
    @@ (".c" :> "C") @@ (".h" :> "C") @@ (".cpp" :> "C++")
    @@ (".cc" :> "C++") @@ (".cxx" :> "C++") @@ (".hpp" :> "C++")
    @@ (".hh" :> "C++") @@ (".hxx" :> "C++") @@ (".cs" :> "C#")
    @@ (".html" :> "HTML") @@ (".htm" :> "HTML") @@ (".css" :> "CSS")
    @@ (".scss" :> "SCSS") @@ (".sass" :> "SCSS") @@ (".less" :> "CSS")
    @@ (".sh" :> "Shell") @@ (".bash" :> "Shell") @@ (".zsh" :> "Shell")
    @@ (".yaml" :> "YAML") @@ (".yml" :> "YAML") @@ (".json" :> "JSON")
    @@ (".xml" :> "XML") @@ (".toml" :> "TOML") @@ (".rb" :> "Ruby")
    @@ (".php" :> "PHP") @@ (".swift" :> "Swift") @@ (".kt" :> "Kotlin")
    @@ (".kts" :> "Kotlin") @@ (".scala" :> "Scala") @@ (".r" :> "R")
    @@ (".R" :> "R") @@ (".sql" :> "SQL") @@ (".md" :> "Markdown")
    @@ (".markdown" :> "Markdown")

\* detect_language
detect_language(file_path) ==
    IF ~Contains(file_path, ".") THEN "Unknown"
    ELSE LET extension       == "." \o Last(RSplit1(file_path, "."))
             extension_lower == Lower(extension)
         IN  IF extension_lower \in DOMAIN EXTENSION_TO_LANGUAGE
             THEN EXTENSION_TO_LANGUAGE[extension_lower]
             ELSE "Unknown"

\* d[k] of a defaultdict(int) kept as a list of entries in insertion order
DictValue(d, k) ==
    IF \E n \in 1..Len(d) : d[n].k = k
    THEN d[CHOOSE n \in 1..Len(d) : d[n].k = k].v
    ELSE 0

\* len([line for line in content.split("\n") if line.strip()])
NonBlankLines(content) ==
    LET lines == Split(content, "\n")
    IN  Cardinality({n \in 1..Len(lines) : Strip(lines[n]) # ""})

\* the test with which every file would enter the statistics
ClassifiedAlways(language) == TRUE

\* if language != "Unknown"
Classified(language) == language # "Unknown"

\* one iteration of the counting loop of get_repo_language_stats
CountFile(st, file_obj) ==
    LET language == detect_language(file_obj.path)
    IN  IF Classified(language)
        THEN [language_counts |-> DictPut(st.language_counts, language,
                                          DictValue(st.language_counts, language) + 1),
              language_lines  |-> DictPut(st.language_lines, language,
                                          DictValue(st.language_lines, language)
                                              + NonBlankLines(file_obj.content)),
              total_files     |-> st.total_files + 1]
        ELSE st

\* the counting loop after the first k files
RECURSIVE CountPass(_, _)
CountPass(fs, k) ==
    IF k = 0
    THEN [language_counts |-> <<>>, language_lines |-> <<>>, total_files |-> 0]
    ELSE CountFile(CountPass(fs, k - 1), fs[k])

\* round((count / total_files) * 100, 2), in hundredths of a percent: the
\* quotient 10000 * count / total_files rounded to the nearest integer, a
\* half to the even one (for fewer than 160 files the float computation has
\* this value)
Percentage(count, total) ==
    LET n == 10000 * count
        q == n \div total
        r == n % total
    IN  IF 2 * r > total \/ (2 * r = total /\ q % 2 = 1) THEN q + 1 ELSE q

\* primary_language when no file is classified (None)
NoLanguage == ""

\* the key max() would return if it kept the last of the largest counts
LastMax(counts) ==
    LET top == SetMax({counts[n].v : n \in 1..Len(counts)})
    IN  counts[SetMax({n \in 1..Len(counts) : counts[n].v = top})].k

\* max(language_counts.items(), key=lambda x: x[1])[0]: the first of the
\* entries with the largest count
FirstMax(counts) ==
    LET top == SetMax({counts[n].v : n \in 1..Len(counts)})
    IN  counts[SetMin({n \in 1..Len(counts) : counts[n].v = top})].k

\* sorted(languages.items(), key=lambda x: x[1]["files"], reverse=True): a
\* stable sort, entries with equal counts keep their order
RECURSIVE SortedByFiles(_)
SortedByFiles(rows) ==
    IF rows = <<>> THEN <<>>
    ELSE LET top == SetMax({rows[n].files : n \in 1..Len(rows)})
             j   == SetMin({n \in 1..Len(rows) : rows[n].files = top})
         IN  <<rows[j]>> \o SortedByFiles(SubSeq(rows, 1, j - 1) \o SubSeq(rows, j + 1, Len(rows)))

\* the value get_repo_language_stats returns after the counting loop
LanguageStats(st) ==
    IF st.total_files = 0
    THEN [languages |-> <<>>, primary_language |-> NoLanguage, total_files |-> 0]
    ELSE [languages |->
              SortedByFiles([n \in 1..Len(st.language_counts) |->
                  [language   |-> st.language_counts[n].k,
                   files      |-> st.language_counts[n].v,
                   lines      |-> DictValue(st.language_lines, st.language_counts[n].k),
                   percentage |-> Percentage(st.language_counts[n].v, st.total_files)]]),
          primary_language |-> FirstMax(st.language_counts),
          total_files      |-> st.total_files]

\* get_repo_language_stats, the whole function
get_repo_language_stats(fs) == LanguageStats(CountPass(fs, Len(fs)))

(***************************************************************************)
(* SpecLang: get_repo_language_stats on a file list, one file per step.    *)
(***************************************************************************)
MaxLangFiles == 4   \* length of the file list given to get_repo_language_stats

LangPool ==
    { File("src/a.py", "import os\n\nx = 1"), File("B.PY", ""),
      File("docs/e.md", "t\n  \nu\nv"), File("Makefile", "all:"), File("d.xyz", "q") }

InitLang ==
    /\ files \in ListsUpTo(LangPool, MaxLangFiles)
    /\ pc = "count"
    /\ i = 1
    /\ language_counts = <<>>
    /\ language_lines = <<>>
    /\ total_files = 0
    /\ stats = <<>>
    /\ IdleGraph /\ IdleEntry /\ IdleFlow /\ IdleFolders
    /\ IdleStack

\* the three accumulators of the loop as one record
LangState ==
    [language_counts |-> language_counts, language_lines |-> language_lines,
     total_files |-> total_files]

LangCount ==
    /\ pc = "count"
    /\ i <= Len(files)
    /\ Classified(detect_language(files[i].path))
    /\ LET st == CountFile(LangState, files[i])
       IN  /\ language_counts' = st.language_counts
           /\ language_lines' = st.language_lines
           /\ total_files' = st.total_files
    /\ i' = i + 1
    /\ UNCHANGED <<files, pc, stats, graphVars, entryVars, flowVars, folderVars, stackVars>>

LangSkip ==
    /\ pc = "count"
    /\ i <= Len(files)
    /\ ~Classified(detect_language(files[i].path))
    /\ i' = i + 1
    /\ UNCHANGED <<files, pc, langVars, graphVars, entryVars, flowVars, folderVars, stackVars>>

LangReturnEmpty ==
    /\ pc = "count"
    /\ i > Len(files)
    /\ total_files = 0
    /\ stats' = LanguageStats(LangState)
    /\ pc' = "done"
    /\ UNCHANGED <<files, i, language_counts, language_lines, total_files,
                   graphVars, entryVars, flowVars, folderVars, stackVars>>

LangReturn ==
    /\ pc = "count"
    /\ i > Len(files)
    /\ total_files # 0
    /\ stats' = LanguageStats(LangState)
    /\ pc' = "done"
    /\ UNCHANGED <<files, i, language_counts, language_lines, total_files,
                   graphVars, entryVars, flowVars, folderVars, stackVars>>

NextLang == LangCount \/ LangSkip \/ LangReturnEmpty \/ LangReturn

SpecLang == InitLang /\ [][NextLang]_vars

\* the positions of the list whose file has the language
FilesOf(language) ==
    {n \in 1..Len(files) : detect_language(files[n].path) = language}

\* the languages of the files of the list that have a known one
KnownLanguages ==
    {detect_language(files[n].path) : n \in 1..Len(files)} \ {"Unknown"}

\* C9: primary_language has a file count at least that of every other
\* language, among the languages with the largest count it is the one whose
\* first file comes first in the list, and it is None exactly when no file
\* has a known language.
C9_PrimaryLanguageIsFirstMax ==
    pc = "done" =>
        /\ stats.primary_language = NoLanguage <=> KnownLanguages = {}
        /\ KnownLanguages # {} =>
              /\ stats.primary_language \in KnownLanguages
              /\ \A l \in KnownLanguages :
                    /\ Cardinality(FilesOf(stats.primary_language)) >= Cardinality(FilesOf(l))
                    /\ Cardinality(FilesOf(l)) = Cardinality(FilesOf(stats.primary_language))
                          => SetMin(FilesOf(stats.primary_language)) <= SetMin(FilesOf(l))

\* a finished run in which two languages share the largest count and a file
\* of unknown language comes first
C9_Witness ==
    /\ pc = "done"
    /\ Len(files) = 3
    /\ detect_language(files[1].path) = "Unknown"
    /\ Len(stats.languages) = 2
    /\ stats.languages[1].files = stats.languages[2].files
    /\ stats.primary_language = detect_language(files[2].path)

\* the list with the content of every file emptied
WithoutContent(fs) == [n \in 1..Len(fs) |-> File(fs[n].path, "")]

\* the percentage of every language of a result
Percentages(s) ==
    {<<s.languages[n].language, s.languages[n].percentage>> : n \in 1..Len(s.languages)}

\* C10: files of unknown language count neither in a language's files nor in
\* the total; a percentage is 100 * files / classified files rounded to two
\* decimals (here in hundredths), lies in [0, 100] and is the same whatever
\* the files contain.
C10_PercentagesFromClassifiedCounts ==
    pc = "done" =>
        /\ stats.total_files = Cardinality({n \in 1..Len(files) : detect_language(files[n].path) # "Unknown"})
        /\ {stats.languages[n].language : n \in 1..Len(stats.languages)} = KnownLanguages
        /\ \A n \in 1..Len(stats.languages) :
              LET row == stats.languages[n]
              IN  /\ row.files = Cardinality(FilesOf(row.language))
                  /\ row.percentage = Percentage(Cardinality(FilesOf(row.language)),
                                                 Cardinality(UNION {FilesOf(l) : l \in KnownLanguages}))
                  /\ row.percentage >= 0
                  /\ row.percentage <= 10000
        /\ Percentages(get_repo_language_stats(WithoutContent(files))) = Percentages(stats)

\* a finished run on a list with a file of unknown language, where the
\* percentages are 66.67 and 33.33 and the line counts differ from the file
\* counts
C10_Witness ==
    /\ pc = "done"
    /\ \E n \in 1..Len(files) : detect_language(files[n].path) = "Unknown"
    /\ Len(stats.languages) = 2
    /\ stats.languages[1].percentage = 6667
    /\ stats.languages[2].percentage = 3333
    /\ stats.languages[2].lines > stats.languages[2].files

(***************************************************************************)
(* Further properties of DependencyGraph, checked under Spec.              *)
(***************************************************************************)
\* add_node for each entry of a list, in order
RECURSIVE AddAllNodes(_, _)
AddAllNodes(g, ns) ==
    IF ns = <<>> THEN g ELSE AddAllNodes(add_node(g, Head(ns)), Tail(ns))

\* add_edge for each pair of a set
RECURSIVE AddAllEdges(_, _)
AddAllEdges(g, pairs) ==
    IF pairs = {} THEN g
    ELSE LET p == CHOOSE x \in pairs : TRUE
         IN  AddAllEdges(add_edge(g, p[1], p[2]), pairs \ {p})

\* the (node, dependency) pairs of the 'edges' entry of a to_dict() value
EdgePairs(d) ==
    UNION {{<<k, d.edges[k][n]>> : n \in 1..Len(d.edges[k])} : k \in DOMAIN d.edges}

\* a new graph built from a to_dict() value
FromDict(d) == AddAllEdges(AddAllNodes(NewGraph, d.nodes), EdgePairs(d))

\* C11: the graph rebuilt from to_dict() (add_node for each entry of
\* 'nodes', add_edge for each pair of 'edges') has the node set, the forward
\* edge sets and the reverse index of the original.
C11_ToDictRoundTrip ==
    LET rebuilt == FromDict(to_dict(graph))
    IN  /\ rebuilt.nodes = graph.nodes
        /\ rebuilt.edges = graph.edges
        /\ rebuilt.reverse_edges = graph.reverse_edges

\* a graph with a node of two dependencies, whose to_dict() value lists three
\* nodes and rebuilds to a reverse index of two keys
C11_Witness ==
    /\ \E k \in DOMAIN graph.edges : Cardinality(graph.edges[k]) = 2
    /\ Len(to_dict(graph).nodes) = 3
    /\ Cardinality(DOMAIN FromDict(to_dict(graph)).reverse_edges) = 2

(***************************************************************************)
(* Further properties of classify_folders, checked under SpecFolders.      *)
(***************************************************************************)
\* the roles of the name-based pass, in their fixed order
RoleOrder ==
    <<"frontend", "backend", "config", "infrastructure", "scripts", "tests", "docs", "database">>

\* the positions in RoleOrder of the roles with a configured name fragment
\* contained in the lower-cased folder name
RolesNamed(folder) ==
    {r \in 1..Len(RoleOrder) :
        \E c \in 1..Len(FOLDER_PATTERNS) :
            /\ FOLDER_PATTERNS[c].category = RoleOrder[r]
            /\ \E k \in 1..Len(FOLDER_PATTERNS[c].names) :
                  Contains(Lower(folder), FOLDER_PATTERNS[c].names[k])}

\* C12: a folder whose lower-cased name contains a configured name fragment
\* gets the first role, in the fixed order, that has such a fragment,
\* whatever its files are (a folder named frontend holding only .py files is
\* frontend); the content decides only when no fragment matches.
C12_NameOverridesContent ==
    \A n \in 1..Len(classifications) :
        LET row == classifications[n]
        IN  /\ RolesNamed(row.folder) # {}
                 => row.role = RoleOrder[SetMin(RolesNamed(row.folder))]
            /\ RolesNamed(row.folder) = {}
                 => row.role = classify_by_content(row.folder, files)
            /\ (row.folder = "frontend"
                  /\ \A k \in 1..Len(files) :
                        StartsWith(files[k].path, "frontend/") => EndsWith(files[k].path, ".py"))
                 => row.role = "frontend"

\* a finished run with a folder frontend whose only file is a .py file under
\* models/ (backend by content) and a folder web-api, whose name has a
\* frontend and a backend fragment; both are frontend
C12_Witness ==
    /\ pc = "done"
    /\ classify_by_content("frontend", files) = "backend"
    /\ \E n \in 1..Len(classifications) :
          classifications[n].folder = "frontend" /\ classifications[n].role = "frontend"
    /\ \E n \in 1..Len(classifications) :
          /\ classifications[n].folder = "web-api"
          /\ classifications[n].role = "frontend"
          /\ Cardinality(RolesNamed("web-api")) = 2

(***************************************************************************)
(* Further properties of build_dependency_graph, checked under SpecBuild.  *)
(***************************************************************************)
\* the lists of the two-file scenario: a.py importing b and a b.py without
\* import statements, empty or not, in either order
TwoFileScenario ==
    LET a == File("a.py", "import b")
    IN  UNION {{<<a, b>>, <<b, a>>} : b \in {File("b.py", ""), File("b.py", "x = 1")}}

\* C13: for a.py with content import b and b.py without imports (also with
\* empty content), in either order, the graph has the nodes a.py and b.py and
\* the single edge a.py -> b.py, get_upstream(a.py) is [b.py] and
\* get_downstream(b.py) is [a.py].
C13_TwoFileScenario ==
    (pc = "done" /\ files \in TwoFileScenario) =>
        /\ graph.nodes = {"a.py", "b.py"}
        /\ DOMAIN graph.edges = {"a.py"}
        /\ graph.edges["a.py"] = {"b.py"}
        /\ get_upstream(graph, "a.py") = <<"b.py">>
        /\ get_downstream(graph, "b.py") = <<"a.py">>
        /\ get_upstream(graph, "b.py") = <<>>
        /\ get_downstream(graph, "a.py") = <<>>

\* a finished build of the scenario with b.py first and empty, so that b.py
\* is skipped by the loop and is a node only as the target of the edge
C13_Witness ==
    /\ pc = "done"
    /\ files = <<File("b.py", ""), File("a.py", "import b")>>
    /\ graph = build_dependency_graph(files)
    /\ "b.py" \in graph.nodes

(***************************************************************************)
(* Stack detection (analysis/stack_detector.py): detect_databases and      *)
(* detect_infrastructure.                                                  *)
(***************************************************************************)
\* DATABASE_PATTERNS, in dict order; a pattern group a rule does not have is the empty list
DATABASE_PATTERNS ==
    << [name |-> "PostgreSQL",
        imports |-> <<"psycopg2", "asyncpg", "pg">>,
        dependencies |-> <<"psycopg2", "asyncpg", "pg">>,
        config |-> <<"postgres://", "postgresql://">>,
        files |-> <<>>],
       [name |-> "MySQL",
        imports |-> <<"mysql", "pymysql", "mysqlclient">>,
        dependencies |-> <<"mysql", "pymysql", "mysql-connector">>,
        config |-> <<"mysql://">>,
        files |-> <<>>],
       [name |-> "SQLite",
        imports |-> <<"sqlite3", "import sqlite3">>,
        dependencies |-> <<"sqlite3">>,
        config |-> <<>>,
        files |-> <<".db", ".sqlite", ".sqlite3">>],
       [name |-> "MongoDB",
        imports |-> <<"pymongo", "mongoose", "mongodb">>,
        dependencies |-> <<"pymongo", "mongoose", "mongodb">>,
        config |-> <<"mongodb://">>,
        files |-> <<>>],
       [name |-> "Redis",
        imports |-> <<"redis", "import redis", "ioredis">>,
        dependencies |-> <<"redis", "ioredis">>,
        config |-> <<"redis://">>,
        files |-> <<>>],
       [name |-> "Elasticsearch",
        imports |-> <<"elasticsearch", "from elasticsearch">>,
        dependencies |-> <<"elasticsearch", "@elastic/elasticsearch">>,
        config |-> <<"elasticsearch://">>,
        files |-> <<>>] >>

\* INFRA_PATTERNS, in dict order; a pattern group a rule does not have is the empty list
INFRA_PATTERNS ==
    << [name |-> "Docker",
        files |-> <<"Dockerfile", "docker-compose.yml", "docker-compose.yaml", ".dockerignore">>,
        extensions |-> <<>>,
        content |-> <<>>],
       [name |-> "Kubernetes",
        files |-> <<"k8s/", "kubernetes/", "deployment.yaml", "service.yaml">>,
        extensions |-> <<".yaml", ".yml">>,
        content |-> <<"kind: Deployment", "kind: Service", "apiVersion: apps/v1">>],
       [name |-> "GitHub Actions",
        files |-> <<".github/workflows/">>,
        extensions |-> <<>>,
        content |-> <<>>],
       [name |-> "GitLab CI",
        files |-> <<".gitlab-ci.yml">>,
        extensions |-> <<>>,
        content |-> <<>>],
       [name |-> "Terraform",
        files |-> <<".tf">>,
        extensions |-> <<".tf">>,
        content |-> <<>>] >>

\* the body of the loop of detect_databases: one rule against one file
DatabaseFires(patterns, file_obj) ==
    \/ check_imports(file_obj.content, patterns.imports)
    \/ check_dependencies(file_obj.path, file_obj.content, patterns.dependencies)
    \/ \E k \in 1..Len(patterns.config) : Contains(file_obj.content, patterns.config[k])
    \/ \E k \in 1..Len(patterns.files) : EndsWith(file_obj.path, patterns.files[k])

\* detect_databases
detect_databases(fs) ==
    Sorted({DATABASE_PATTERNS[r].name :
              r \in {r \in 1..Len(DATABASE_PATTERNS) :
                       \E k \in 1..Len(fs) : DatabaseFires(DATABASE_PATTERNS[r], fs[k])}})

\* the extension test as it would be without the content markers
ExtensionFiresAlone(patterns, file_obj) ==
    \E k \in 1..Len(patterns.extensions) : EndsWith(file_obj.path, patterns.extensions[k])

\* the "extensions" block of detect_infrastructure: the first extension the
\* path ends with decides (break); with content markers configured one of
\* them has to be in the content of the same file
ExtensionFires(patterns, file_obj) ==
    /\ \E k \in 1..Len(patterns.extensions) : EndsWith(file_obj.path, patterns.extensions[k])
    /\ \/ patterns.content = <<>>
       \/ \E c \in 1..Len(patterns.content) : Contains(file_obj.content, patterns.content[c])

\* the body of the loop of detect_infrastructure: one rule against one file
InfraFires(patterns, file_obj) ==
    \/ \E k \in 1..Len(patterns.files) : Contains(file_obj.path, patterns.files[k])
    \/ ExtensionFires(patterns, file_obj)

\* detect_infrastructure
detect_infrastructure(fs) ==
    Sorted({INFRA_PATTERNS[r].name :
              r \in {r \in 1..Len(INFRA_PATTERNS) :
                       \E k \in 1..Len(fs) : InfraFires(INFRA_PATTERNS[r], fs[k])}})

(***************************************************************************)
(* SpecAnalyze: the analysis run of run_analysis (ui/app.py) on a file     *)
(* list: language statistics, the three stack detectors, folder            *)
(* classification, entry points, the folder summaries handed on to the     *)
(* flow, the dependency graph and the execution flow, one call per step.   *)
(* Of a folder summary only the fields folder and role are kept, which     *)
(* summarize_folder copies from its arguments.                             *)
(***************************************************************************)
\* a file record carries the key: file_obj[key] raises KeyError without it
HasKey(file_obj, key) == key \in DOMAIN file_obj

\* file_obj.get(key, ""), the way the analysis functions read a record
Get(file_obj, key) == IF HasKey(file_obj, key) THEN file_obj[key] ELSE ""

\* the file list as the functions that read their records with .get see it
AsRead(fs) == [k \in 1..Len(fs) |-> File(Get(fs[k], "path"), Get(fs[k], "content"))]

\* the number of application files that are summarized:
\* entrypoints.get("application_files", [])[:10]
ImportantLimit == 10

NoError == ""

\* the exception of a subscript with an absent key
KeyError(key) == "KeyError: '" \o key \o "'"

\* the body of the loop over files on one record: file_obj["path"] is read
\* for every record, file_obj["content"] for the records that are summarized
RecordError(file_obj, important_files) ==
    IF ~HasKey(file_obj, "path") THEN KeyError("path")
    ELSE IF file_obj.path \in Range(important_files) /\ ~HasKey(file_obj, "content")
         THEN KeyError("content")
         ELSE NoError

\* the loop that fills file_summaries, in list order: the exception of the
\* first record that raises (NoError when none does) and the paths of the
\* files summarized until then, the files whose path is one of important_files
SummarizedPaths(fs, entrypoints) ==
    LET important_files == Take(Paths(entrypoints.application_files), ImportantLimit)
        failing == {k \in 1..Len(fs) : RecordError(fs[k], important_files) # NoError}
        first == IF failing = {} THEN Len(fs) + 1
                 ELSE CHOOSE k \in failing : \A j \in failing : k <= j
        summarized == SelectSeq(SubSeq(fs, 1, first - 1),
                                LAMBDA f : f.path \in Range(important_files))
    IN  [raises         |-> IF failing = {} THEN NoError
                            ELSE RecordError(fs[first], important_files),
         file_summaries |-> Paths(summarized)]

\* folder_summaries: one summary for every classified folder that has a
\* summarized file (s["path"].startswith(folder_path))
FolderSummaries(fs, entrypoints, folder_structure) ==
    LET summarized == SummarizedPaths(fs, entrypoints).file_summaries
        kept == SelectSeq(folder_structure,
                          LAMBDA row : \E k \in 1..Len(summarized) :
                                          StartsWith(summarized[k], row.folder))
    IN  [k \in 1..Len(kept) |-> [folder |-> kept[k].folder, role |-> kept[k].role]]

\* a record without the key path, and an entry point without the key content
PathlessRecord    == [content |-> "import flask\napp = Flask(__name__)"]
ContentlessRecord == [path |-> "main.py"]

AnalysisPool ==
    { PathlessRecord,
      ContentlessRecord,
      File("src/app.py", "from db import q\nimport redis"),
      File("db/q.py", "x = 1"),
      File("Dockerfile", "FROM python\nCMD [\"python\"]") }

InitAnalyze ==
    /\ files \in ListsUpTo(AnalysisPool, MaxFiles)
    /\ pc = "languages"
    /\ i = 0
    /\ IdleGraph /\ IdleEntry /\ IdleFlow /\ IdleFolders /\ IdleLang /\ IdleStack

AnalyzeLanguages ==
    /\ pc = "languages"
    /\ stats' = get_repo_language_stats(AsRead(files))
    /\ pc' = "frameworks"
    /\ UNCHANGED <<files, i, language_counts, language_lines, total_files,
                   graphVars, entryVars, flowVars, folderVars, stackVars>>

AnalyzeFrameworks ==
    /\ pc = "frameworks"
    /\ detected' = detect_frameworks(AsRead(files))
    /\ pc' = "databases"
    /\ UNCHANGED <<files, i, result, graphVars, flowVars, folderVars, langVars, stackVars>>

AnalyzeDatabases ==
    /\ pc = "databases"
    /\ db_detected' = detect_databases(AsRead(files))
    /\ pc' = "infrastructure"
    /\ UNCHANGED <<files, i, infra_detected, graphVars, entryVars, flowVars, folderVars, langVars>>

AnalyzeInfrastructure ==
    /\ pc = "infrastructure"
    /\ infra_detected' = detect_infrastructure(AsRead(files))
    /\ pc' = "folders"
    /\ UNCHANGED <<files, i, db_detected, graphVars, entryVars, flowVars, folderVars, langVars>>

AnalyzeFolders ==
    /\ pc = "folders"
    /\ classifications' = classify_folders(AsRead(files))
    /\ pc' = "entrypoints"
    /\ UNCHANGED <<files, i, folders, graphVars, entryVars, flowVars, langVars, stackVars>>

AnalyzeEntrypoints ==
    /\ pc = "entrypoints"
    /\ result' = find_entrypoints(AsRead(files))
    /\ pc' = "summaries"
    /\ UNCHANGED <<files, i, detected, graphVars, flowVars, folderVars, langVars, stackVars>>

AnalyzeSummaries ==
    /\ pc = "summaries"
    /\ SummarizedPaths(files, result).raises = NoError
    /\ inputs' = [entrypoints      |-> result,
                  folder_summaries |-> FolderSummaries(files, result, classifications),
                  frameworks       |-> detected,
                  databases        |-> db_detected,
                  infrastructure   |-> infra_detected]
    /\ pc' = "graph"
    /\ UNCHANGED <<files, i, flow, graphVars, entryVars, folderVars, langVars, stackVars>>

\* the loop over files raises: run_analysis ends with the exception, before
\* build_dependency_graph and build_execution_flow
AnalyzeKeyError ==
    /\ pc = "summaries"
    /\ SummarizedPaths(files, result).raises # NoError
    /\ pc' = SummarizedPaths(files, result).raises
    /\ UNCHANGED <<files, i, graphVars, entryVars, flowVars, folderVars, langVars, stackVars>>

AnalyzeGraph ==
    /\ pc = "graph"
    /\ graph' = build_dependency_graph(AsRead(files))
    /\ pc' = "flow"
    /\ UNCHANGED <<files, i, ret, calls, entryVars, flowVars, folderVars, langVars, stackVars>>

AnalyzeFlow ==
    /\ pc = "flow"
    /\ flow' = build_execution_flow(inputs)
    /\ pc' = "done"
    /\ UNCHANGED <<files, i, inputs, graphVars, entryVars, folderVars, langVars, stackVars>>

NextAnalyze ==
    \/ AnalyzeLanguages \/ AnalyzeFrameworks \/ AnalyzeDatabases
    \/ AnalyzeInfrastructure \/ AnalyzeFolders \/ AnalyzeEntrypoints
    \/ AnalyzeSummaries \/ AnalyzeKeyError \/ AnalyzeGraph \/ AnalyzeFlow

SpecAnalyze == InitAnalyze /\ [][NextAnalyze]_vars

\* C14: on the empty file list every component returns its empty value and
\* the run reaches its end: empty language statistics with primary_language
\* None, no folder, three empty entry-point lists, no framework, database or
\* infrastructure name, a graph without nodes and edges, and a flow without
\* stages and connections.
C14_EmptyListIsValid ==
    (pc = "done" /\ files = <<>>) =>
        /\ stats = [languages |-> <<>>, primary_language |-> NoLanguage, total_files |-> 0]
        /\ classifications = <<>>
        /\ result = EmptyResult
        /\ detected = <<>> /\ db_detected = <<>> /\ infra_detected = <<>>
        /\ graph.nodes = {}
        /\ DOMAIN graph.edges = {} /\ DOMAIN graph.reverse_edges = {}
        /\ flow.stages = <<>> /\ flow.connections = <<>>

\* the finished run on the empty file list
C14_Witness ==
    /\ pc = "done"
    /\ files = <<>>
    /\ inputs.entrypoints = EmptyResult
    /\ inputs.folder_summaries = <<>>
    /\ flow = build_execution_flow(inputs)


\* the list without the records that have no path
WithPath(fs) == AsRead(SelectSeq(fs, LAMBDA f : HasKey(f, "path")))

\* the steps of the run that are behind it when it stands at pc; a run that
\* has raised stood at the summaries
StepsBefore(step) ==
    LET order == <<"languages", "frameworks", "databases", "infrastructure",
                   "folders", "entrypoints", "summaries", "graph", "flow", "done">>
        at == IF step \in Range(order) THEN step ELSE "summaries"
    IN  {order[k] : k \in {k \in 1..Len(order) :
                             \E j \in 1..Len(order) : order[j] = at /\ k < j}}

\* C15: a record without a path does not end the run and contributes
\* nothing: the run raises no exception, and every output it has produced
\* (language statistics, framework, database and infrastructure names,
\* folder classification, entry points, dependency graph) is that of the
\* list without the record.
C15_PathlessRecordIgnored ==
    LET behind == StepsBefore(pc)
    IN  /\ pc \notin {KeyError("path"), KeyError("content")}
        /\ "languages" \in behind => stats = get_repo_language_stats(WithPath(files))
        /\ "frameworks" \in behind => detected = detect_frameworks(WithPath(files))
        /\ "databases" \in behind => db_detected = detect_databases(WithPath(files))
        /\ "infrastructure" \in behind =>
               infra_detected = detect_infrastructure(WithPath(files))
        /\ "folders" \in behind => classifications = classify_folders(WithPath(files))
        /\ "entrypoints" \in behind => result = find_entrypoints(WithPath(files))
        /\ "graph" \in behind => graph = build_dependency_graph(WithPath(files))

(***************************************************************************)
(* SpecStack: the three stack detectors on a file list, one after the      *)
(* other as run_analysis calls them, one rule of the pattern table per     *)
(* step.  While a detector runs, its variable holds the set detected; its  *)
(* last step stores sorted(list(detected)).                                *)
(***************************************************************************)
MaxStackFiles == 3  \* length of the file list given to the detectors

WorkflowManifest == File(".github/workflows/k.yaml", "kind: Service")
PlainYaml        == File("conf/app.yml", "debug: true")

StackPool ==
    { File("manage.py", "import flask\nimport psycopg2\nimport pymysql"),
      File("requirements.txt", "Flask==2.0\nredis\n# kind: Service"),
      WorkflowManifest,
      PlainYaml,
      File("k8s/main.tf", "x") }

InitStack ==
    /\ files \in ListsUpTo(StackPool, MaxStackFiles)
    /\ pc = "frameworks"
    /\ i = 1
    /\ detected = {}
    /\ result = <<>>
    /\ db_detected = <<>>
    /\ infra_detected = <<>>
    /\ IdleGraph /\ IdleFlow /\ IdleFolders /\ IdleLang

\* detected as it would be if a rule that fires replaced the names found
AfterRuleReplacing(found, rule, fires) ==
    IF fires THEN {rule.name} ELSE found

\* detected after one rule of a table has been tried on the files
AfterRule(found, rule, fires) ==
    IF fires THEN found \cup {rule.name} ELSE found

FrameworkRule ==
    /\ pc = "frameworks"
    /\ i <= Len(FRAMEWORK_PATTERNS)
    /\ detected' = AfterRule(detected, FRAMEWORK_PATTERNS[i],
                             \E k \in 1..Len(files) : FrameworkFires(FRAMEWORK_PATTERNS[i], files[k]))
    /\ i' = i + 1
    /\ UNCHANGED <<files, pc, result, graphVars, flowVars, folderVars, langVars, stackVars>>

FrameworkReturn ==
    /\ pc = "frameworks"
    /\ i > Len(FRAMEWORK_PATTERNS)
    /\ detected' = Sorted(detected)
    /\ db_detected' = {}
    /\ pc' = "databases"
    /\ i' = 1
    /\ UNCHANGED <<files, result, infra_detected, graphVars, flowVars, folderVars, langVars>>

DatabaseRule ==
    /\ pc = "databases"
    /\ i <= Len(DATABASE_PATTERNS)
    /\ db_detected' = AfterRule(db_detected, DATABASE_PATTERNS[i],
                                \E k \in 1..Len(files) : DatabaseFires(DATABASE_PATTERNS[i], files[k]))
    /\ i' = i + 1
    /\ UNCHANGED <<files, pc, infra_detected, graphVars, entryVars, flowVars, folderVars, langVars>>

DatabaseReturn ==
    /\ pc = "databases"
    /\ i > Len(DATABASE_PATTERNS)
    /\ db_detected' = Sorted(db_detected)
    /\ infra_detected' = {}
    /\ pc' = "infrastructure"
    /\ i' = 1
    /\ UNCHANGED <<files, graphVars, entryVars, flowVars, folderVars, langVars>>

InfraRule ==
    /\ pc = "infrastructure"
    /\ i <= Len(INFRA_PATTERNS)
    /\ infra_detected' = AfterRule(infra_detected, INFRA_PATTERNS[i],
                                   \E k \in 1..Len(files) : InfraFires(INFRA_PATTERNS[i], files[k]))
    /\ i' = i + 1
    /\ UNCHANGED <<files, pc, db_detected, graphVars, entryVars, flowVars, folderVars, langVars>>

InfraReturn ==
    /\ pc = "infrastructure"
    /\ i > Len(INFRA_PATTERNS)
    /\ infra_detected' = Sorted(infra_detected)
    /\ pc' = "done"
    /\ UNCHANGED <<files, i, db_detected, graphVars, entryVars, flowVars, folderVars, langVars>>

NextStack ==
    \/ FrameworkRule \/ FrameworkReturn
    \/ DatabaseRule \/ DatabaseReturn
    \/ InfraRule \/ InfraReturn

SpecStack == InitStack /\ [][NextStack]_vars

\* a list of names in strictly increasing order: sorted, without duplicates
StrictlySorted(names) ==
    \A a \in 1..Len(names), b \in 1..Len(names) : a < b => StrLess(names[a], names[b])

\* the names of the rules of a table for which some file of the list matches
\* some pattern group
RulesMatched(table, Matches(_, _)) ==
    {table[r].name : r \in {r \in 1..Len(table) :
                              \E k \in 1..Len(files) : Matches(table[r], files[k])}}

\* a file matches a pattern group of a framework rule
FrameworkGroupMatch(rule, f) ==
    \/ \E k \in 1..Len(rule.imports) : Contains(Lower(f.content), Lower(rule.imports[k]))
    \/ check_dependencies(f.path, f.content, rule.dependencies)
    \/ \E k \in 1..Len(rule.files) : Contains(f.path, rule.files[k])

\* a file matches a pattern group of a database rule
DatabaseGroupMatch(rule, f) ==
    \/ \E k \in 1..Len(rule.imports) : Contains(Lower(f.content), Lower(rule.imports[k]))
    \/ check_dependencies(f.path, f.content, rule.dependencies)
    \/ \E k \in 1..Len(rule.config) : Contains(f.content, rule.config[k])
    \/ \E k \in 1..Len(rule.files) : EndsWith(f.path, rule.files[k])

\* a file matches a pattern group of an infrastructure rule; the extension
\* group of a rule with content markers is matched by an extension together
\* with a marker
InfraGroupMatch(rule, f) ==
    \/ \E k \in 1..Len(rule.files) : Contains(f.path, rule.files[k])
    \/ /\ \E k \in 1..Len(rule.extensions) : EndsWith(f.path, rule.extensions[k])
       /\ rule.content # <<>> => \E k \in 1..Len(rule.content) : Contains(f.content, rule.content[k])

\* C16: for each of the three detectors a rule name is in the output exactly
\* when some file matches some pattern group of the rule, and the output is
\* sorted without duplicates, the same for every permutation of the list.
C16_RulesFiredSorted ==
    pc = "done" =>
        /\ Range(detected) = RulesMatched(FRAMEWORK_PATTERNS, FrameworkGroupMatch)
        /\ Range(db_detected) = RulesMatched(DATABASE_PATTERNS, DatabaseGroupMatch)
        /\ Range(infra_detected) = RulesMatched(INFRA_PATTERNS, InfraGroupMatch)
        /\ StrictlySorted(detected)
        /\ StrictlySorted(db_detected)
        /\ StrictlySorted(infra_detected)
        /\ \A shuffled \in Shuffles(files) :
              /\ detect_frameworks(shuffled) = detected
              /\ detect_databases(shuffled) = db_detected
              /\ detect_infrastructure(shuffled) = infra_detected

\* a finished run in which two files fire the same framework, and each
\* detector reports two names found in the other order in its table
C16_Witness ==
    /\ pc = "done"
    /\ detected = <<"Django", "Flask">>
    /\ Cardinality({k \in 1..Len(files) : FrameworkFires(FRAMEWORK_PATTERNS[1], files[k])}) = 2
    /\ db_detected = <<"MySQL", "PostgreSQL", "Redis">>
    /\ infra_detected = <<"GitHub Actions", "Kubernetes">>

\* the path of the file has one of the rule's extensions
HasRuleExtension(rule, f) ==
    \E k \in 1..Len(rule.extensions) : EndsWith(f.path, rule.extensions[k])

\* the content of the file has one of the rule's marker strings
HasRuleMarker(rule, f) ==
    \E k \in 1..Len(rule.content) : Contains(f.content, rule.content[k])

\* C19: an infrastructure rule with content markers (Kubernetes) that is
\* reported has a file that matches its file names, or a file with one of
\* its extensions whose own content has a marker; a file with the extension
\* but no marker does not make the rule reported.
C19_ExtensionNeedsMarker ==
    pc = "done" =>
        \A r \in 1..Len(INFRA_PATTERNS) :
            LET rule == INFRA_PATTERNS[r]
            IN  (rule.content # <<>> /\ rule.name \in Range(infra_detected)) =>
                    \E k \in 1..Len(files) :
                        \/ \E p \in 1..Len(rule.files) : Contains(files[k].path, rule.files[p])
                        \/ HasRuleExtension(rule, files[k]) /\ HasRuleMarker(rule, files[k])

\* a finished run on a list with a .yml file without a marker and a file of
\* another extension that has the marker: Kubernetes is not reported
C19_Witness ==
    /\ pc = "done"
    /\ \E k \in 1..Len(files) :
          HasRuleExtension(INFRA_PATTERNS[2], files[k]) /\ ~HasRuleMarker(INFRA_PATTERNS[2], files[k])
    /\ \E k \in 1..Len(files) :
          ~HasRuleExtension(INFRA_PATTERNS[2], files[k]) /\ HasRuleMarker(INFRA_PATTERNS[2], files[k])
    /\ INFRA_PATTERNS[2].name = "Kubernetes"
    /\ "Kubernetes" \notin Range(infra_detected)

(***************************************************************************)
(* Queries and repeated edges of DependencyGraph, checked under Spec.      *)
(***************************************************************************)
\* the graph has the edge a -> b
HasEdge(a, b) == a \in DOMAIN graph.edges /\ b \in graph.edges[a]

\* C17: get_upstream and get_downstream return sorted lists, and the empty
\* list for a node the graph does not know or that has no edge in the
\* direction asked for.
C17_QueriesSortedAndTotal ==
    \A n \in Queries :
        /\ StrictlySorted(get_upstream(graph, n))
        /\ StrictlySorted(get_downstream(graph, n))
        /\ Range(get_upstream(graph, n)) = {b \in graph.nodes : HasEdge(n, b)}
        /\ Range(get_downstream(graph, n)) = {a \in graph.nodes : HasEdge(a, n)}
        /\ n \notin graph.nodes
              => get_upstream(graph, n) = <<>> /\ get_downstream(graph, n) = <<>>
        /\ (\A b \in graph.nodes : ~HasEdge(n, b)) => get_upstream(graph, n) = <<>>
        /\ (\A a \in graph.nodes : ~HasEdge(a, n)) => get_downstream(graph, n) = <<>>

\* a graph with a node of two dependencies, which itself has nothing
\* downstream, a node without dependencies and an unknown node to ask for
C17_Witness ==
    /\ \E n \in graph.nodes :
          /\ Len(get_upstream(graph, n)) = 2
          /\ get_downstream(graph, n) = <<>>
    /\ \E n \in graph.nodes :
          /\ get_upstream(graph, n) = <<>>
          /\ Len(get_downstream(graph, n)) = 1
    /\ \E n \in Queries : n \notin graph.nodes

\* C18: add_edge is idempotent: a second add_edge(a, b) leaves nodes, edges
\* and reverse_edges as they were after the first.
C18_AddEdgeIdempotent ==
    \A a \in NodeNames, b \in NodeNames :
        LET once == add_edge(graph, a, b)
        IN  /\ add_edge(once, a, b) = once
            /\ HasEdge(a, b) => once = graph

\* a graph on which add_edge was called for an edge it already had: three
\* calls were made and it has one edge between its two nodes
C18_Witness ==
    /\ calls = 3
    /\ Cardinality(graph.nodes) = 2
    /\ \E a \in graph.nodes, b \in graph.nodes :
          /\ a # b
          /\ HasEdge(a, b)
          /\ DOMAIN graph.edges = {a}
          /\ graph.edges[a] = {b}
          /\ add_edge(graph, a, b) = graph

(***************************************************************************)
(* Independence of the folders of classify_folders, checked under          *)
(* SpecFolders.                                                            *)
(***************************************************************************)
\* the list without the records whose top-level folder is x
WithoutFolder(fs, x) == SelectSeq(fs, LAMBDA f : get_folder_from_path(f.path) # x)

\* the entries of a classification for the folders other than x
RowsExcept(rows, x) == SelectSeq(rows, LAMBDA row : row.folder # x)

\* C20: the role and the file_count reported for a folder do not depend on
\* the records of any other top-level folder X: they are the ones reported
\* for the list with all records of X taken out (so they are the same for
\* any two lists that differ only in records of X).
C20_FoldersIndependent ==
    pc = "done" =>
        \A x \in FolderSet(files) :
            RowsExcept(classifications, x) = classify_folders(WithoutFolder(files, x))

\* a finished run with a folder of role config next to a folder classified
\* as backend by the content of its two files
C20_Witness ==
    /\ pc = "done"
    /\ Len(classifications) = 2
    /\ classifications[1].role = "config"
    /\ classify_by_name(classifications[2].folder) = "misc"
    /\ classifications[2].role = "backend"
    /\ classifications[2].file_count = 2
    /\ classify_folders(WithoutFolder(files, classifications[1].folder)) = <<classifications[2]>>

(***************************************************************************)
(* SpecContent: classify_folders on the files of one folder whose name     *)
(* matches no role, so that the role comes from _classify_by_content.      *)
(* The file list is a selection of ContentPool, in the order of the pool.  *)
(***************************************************************************)
MaxContentFiles == 6   \* length of the file list given to classify_folders

ContentPool ==
    << File("lib/a.tsx", "a"), File("lib/b.css", "b"), File("lib/c.vue", "c"),
       File("lib/x.py", "x"), File("lib/y.go", "y"), File("lib/z.rb", "z"),
       File("lib/k.yaml", "k"), File("lib/s.sh", "s"), File("lib/README", "r"),
       File("lib/models/m.tsx", "m"), File("lib/Views/v.py", "v") >>

\* the records of pool at the positions of S, in the order of the pool
Selection(pool, S) ==
    LET at[k \in 0..Len(pool)] ==
            IF k = 0 THEN <<>>
            ELSE IF k \in S THEN Append(at[k - 1], pool[k]) ELSE at[k - 1]
    IN  at[Len(pool)]

InitContent ==
    /\ \E S \in SUBSET (1..Len(ContentPool)) :
          /\ Cardinality(S) <= MaxContentFiles
          /\ files = Selection(ContentPool, S)
    /\ pc = "collect"
    /\ i = 1
    /\ folders = {}
    /\ classifications = <<>>
    /\ IdleGraph /\ IdleEntry /\ IdleFlow /\ IdleLang
    /\ IdleStack

SpecContent == InitContent /\ [][NextFolders]_vars

\* the number of records of fs whose path ends with one of the extensions
ExtensionCount(fs, exts) ==
    Cardinality({k \in 1..Len(fs) : \E e \in exts : EndsWith(fs[k].path, e)})

\* some path of fs has one of the role's segments (patterns.frameworks)
SegmentPresent(fs, c) == HasPattern(fs, FOLDER_PATTERNS[c].frameworks)

\* C21: in the content-based fallback a role-indicative path segment decides
\* the role whatever the extension counts are: a backend segment (and no
\* frontend segment) gives backend, a frontend segment (and no backend
\* segment) gives frontend, and with segments of both kinds the role is one
\* of the two.
C21_SegmentOutranksCounts ==
    pc = "done" =>
        \A k \in 1..Len(classifications) :
            LET row  == classifications[k]
                ff   == FolderFiles(row.folder, files)
                fseg == SegmentPresent(ff, 1)
                bseg == SegmentPresent(ff, 2)
            IN  classify_by_name(row.folder) = "misc" =>
                    /\ (bseg /\ ~fseg) => row.role = "backend"
                    /\ (fseg /\ ~bseg) => row.role = "frontend"
                    /\ (fseg /\ bseg) => row.role \in {"frontend", "backend"}

\* C22: in the content-based fallback with no role-indicative segment the role
\* follows the thresholds: frontend iff the frontend count exceeds the
\* backend count and 2; else backend iff the backend count exceeds the
\* frontend count and 2; else config iff config files are more than half of
\* the folder's files; else scripts iff script files are more than half;
\* else misc.
C22_ThresholdsDecide ==
    pc = "done" =>
        \A k \in 1..Len(classifications) :
            LET row == classifications[k]
                ff  == FolderFiles(row.folder, files)
                f   == ExtensionCount(ff, FRONTEND_EXTENSIONS)
                b   == ExtensionCount(ff, BACKEND_EXTENSIONS)
                c   == ExtensionCount(ff, CONFIG_EXTENSIONS)
                s   == ExtensionCount(ff, SCRIPT_EXTENSIONS)
                n   == Len(ff)
            IN  (/\ classify_by_name(row.folder) = "misc"
                 /\ ~SegmentPresent(ff, 1)
                 /\ ~SegmentPresent(ff, 2)) =>
                    /\ row.role = "frontend" <=> (f > b /\ f > 2)
                    /\ row.role = "backend" <=> (b > f /\ b > 2)
                    /\ row.role = "config" <=>
                          (~(f > b /\ f > 2) /\ ~(b > f /\ b > 2) /\ 2 * c > n)
                    /\ row.role = "scripts" <=>
                          (~(f > b /\ f > 2) /\ ~(b > f /\ b > 2) /\ 2 * c <= n /\ 2 * s > n)
                    /\ row.role \in {"frontend", "backend", "config", "scripts", "misc"}

\* a finished run on a folder without segments that holds three frontend
\* files and three backend files: above the floor on both sides, neither
\* count exceeds the other, and the folder is misc
C22_Witness ==
    /\ pc = "done"
    /\ Len(classifications) = 1
    /\ LET ff == FolderFiles(classifications[1].folder, files)
       IN  /\ ~SegmentPresent(ff, 1) /\ ~SegmentPresent(ff, 2)
           /\ ExtensionCount(ff, FRONTEND_EXTENSIONS) = 3
           /\ ExtensionCount(ff, BACKEND_EXTENSIONS) = 3
    /\ classifications[1].role = "misc"

(***************************************************************************)
(* Connections of build_execution_flow, checked under SpecFlow.            *)
(***************************************************************************)
\* the flow has a connection from stage a to stage b
Connected(f, a, b) == \E k \in 1..Len(f.connections) :
                          f.connections[k].from = a /\ f.connections[k].to = b

\* the stages from which the flow has a connection to stage b, one entry per
\* connection
Incoming(f, b) == SelectSeq(f.connections, LAMBDA c : c.to = b)

HasStage(f, id) == id \in Range(StageIds(f))

\* C23: when the returned flow has a backend stage, its one incoming
\* connection is from frontend if there is a frontend stage, otherwise from
\* entry if there is an entry stage, otherwise there is none: frontend->backend
\* and entry->backend never both occur, and entry->backend never occurs in a
\* flow with a frontend stage.
C23_BackendIncoming ==
    pc = "done" =>
        /\ HasStage(flow, "backend") =>
              LET incoming == Incoming(flow, "backend")
              IN  IF HasStage(flow, "frontend")
                  THEN Len(incoming) = 1 /\ incoming[1].from = "frontend"
                  ELSE IF HasStage(flow, "entry")
                  THEN Len(incoming) = 1 /\ incoming[1].from = "entry"
                  ELSE incoming = <<>>
        /\ ~(Connected(flow, "frontend", "backend") /\ Connected(flow, "entry", "backend"))
        /\ HasStage(flow, "frontend") => ~Connected(flow, "entry", "backend")

\* a returned flow with the stages entry, frontend and backend, in which the
\* backend is reached from the frontend
C23_Witness ==
    /\ pc = "done"
    /\ HasStage(flow, "entry") /\ HasStage(flow, "frontend") /\ HasStage(flow, "backend")
    /\ Connected(flow, "frontend", "backend")

\* the number of folder summaries with a middleware role
MiddlewareFolders(folder_summaries) ==
    Cardinality({k \in 1..Len(folder_summaries) :
        folder_summaries[k].role \in {"middleware", "utils", "utilities", "scripts"}})

\* C24: the returned flow has a middleware stage iff at least two folder
\* summaries have a middleware/utility/scripts role, and the connection
\* backend->middleware iff it has both the middleware and the backend stage.
C24_MiddlewareNeedsTwo ==
    pc = "done" =>
        /\ HasStage(flow, "middleware") <=> MiddlewareFolders(inputs.folder_summaries) >= 2
        /\ Connected(flow, "backend", "middleware")
              <=> (HasStage(flow, "middleware") /\ HasStage(flow, "backend"))

\* a returned flow for one scripts folder and one backend folder: a backend
\* stage, no middleware stage
C24_Witness ==
    /\ pc = "done"
    /\ MiddlewareFolders(inputs.folder_summaries) = 1
    /\ HasStage(flow, "backend")
    /\ ~HasStage(flow, "middleware")

\* the position of the stage id in the stage list, 0 if there is none
StageIndex(f, id) ==
    LET at == {k \in 1..Len(f.stages) : f.stages[k].id = id}
    IN  IF at = {} THEN 0 ELSE SetMin(at)

\* C28: at every step of build_execution_flow each connection of the flow
\* goes from a stage of the stage list to a stage later in the list (so
\* both ends exist once the connection is appended, and the connections are
\* acyclic), and no connection goes to the entry stage.
C28_ConnectionsForward ==
    \A k \in 1..Len(flow.connections) :
        LET c == flow.connections[k]
        IN  /\ StageIndex(flow, c.from) > 0
            /\ StageIndex(flow, c.from) < StageIndex(flow, c.to)
            /\ c.to # "entry"

\* a returned flow with the connections entry->frontend, frontend->backend
\* and backend->database
C28_Witness ==
    /\ pc = "done"
    /\ Connected(flow, "entry", "frontend")
    /\ Connected(flow, "frontend", "backend")
    /\ Connected(flow, "backend", "database")

(***************************************************************************)
(* SpecImports: build_dependency_graph on lists of files whose imports     *)
(* meet every branch of _resolve_import_to_file: a path equal to the       *)
(* identifier, a normalized path equal to it, normalized paths that only   *)
(* contain it, and no match.                                               *)
(***************************************************************************)
MaxImportFiles == 3   \* length of the file list given to build_dependency_graph

ImportPool ==
    { File("a.py", "import b\nimport zz"),
      File("ab.py", "x = 1"),
      File("cb.py", "x = 1"),
      File("b.py", "x = 1"),
      File("web/m.js", "const y = require('b.js')"),
      File("b.js", "x"),
      File("b/js.py", "x = 1"),
      File("", "import b") }

InitImports ==
    /\ files \in ListsUpTo(ImportPool, MaxImportFiles)
    /\ pc = "build"
    /\ i = 1
    /\ IdleGraph
    /\ IdleEntry /\ IdleFlow /\ IdleFolders /\ IdleLang
    /\ IdleStack

SpecImports == InitImports /\ [][NextBuild]_vars

\* the paths of the list that are the identifier, or whose normalized form
\* is the identifier
WithNormalizedForm(id, paths) == {p \in Range(paths) : normalize_path(p) = id}
ExactMatches(id, paths) == {p \in Range(paths) : p = id} \cup WithNormalizedForm(id, paths)

\* the paths of the list whose normalized form contains the identifier
LooseMatches(id, paths) == {p \in Range(paths) : Contains(normalize_path(p), id)}

\* the records of the list that are processed, and the identifiers imported
\* by the records of one path
Importers == {k \in 1..Len(files) : ~Skipped(files[k])}
ImportsOf(k) ==
    UNION {FileImports(files[j].path, files[j].content) :
             j \in {l \in Importers : files[l].path = files[k].path}}

\* the targets of the edges recorded from the path
EdgesFrom(path) == DictGet(graph.edges, path)

\* C25 as stated: an identifier that is the normalized form of a file of the
\* list resolves to a file with that normalized form (the importing file
\* itself and the empty path give no edge), whatever other normalized paths contain it and
\* whatever the file order; an edge comes from the contains/ends-with
\* fallback only for an identifier without exact match; an identifier that
\* matches no file gives no edge.
C25_ExactBeforeLoose ==
    pc = "done" =>
        LET paths == AllFilePaths(files)
        IN  \A k \in Importers :
                /\ \A id \in ImportsOf(k) :
                      WithNormalizedForm(id, paths) # {} =>
                          \E t \in WithNormalizedForm(id, paths) :
                              t = files[k].path \/ t = "" \/ t \in EdgesFrom(files[k].path)
                /\ \A t \in EdgesFrom(files[k].path) :
                      \E id \in ImportsOf(k) :
                          IF ExactMatches(id, paths) # {}
                          THEN t \in ExactMatches(id, paths)
                          ELSE t \in LooseMatches(id, paths)

\* the paths that {_normalize_path(f): f for f in all_files} keeps as values:
\* of the files with one normalized form, the last of the list
KeptPaths(paths) ==
    {paths[n] : n \in {m \in 1..Len(paths) :
        \A l \in (m + 1)..Len(paths) : normalize_path(paths[l]) # normalize_path(paths[m])}}

\* C25 as amended: an identifier that is itself the path of a file of the
\* list (the last listed of the files with its normalized form) resolves to
\* that path; otherwise an identifier that is the normalized form of a file
\* of the list resolves to a file with that normalized form, whatever other
\* normalized paths contain it and whatever the file order; only an
\* identifier with neither match resolves by the fallback, to a file whose
\* normalized path contains it; an identifier that matches no file gives no
\* edge.  A resolution to the importing file or to the empty path records
\* no edge.
C25_DirectThenNormalizedThenLoose ==
    pc = "done" =>
        LET paths == AllFilePaths(files)
            Resolved(id) ==
                IF id \in KeptPaths(paths) THEN {id}
                ELSE IF WithNormalizedForm(id, paths) # {}
                THEN WithNormalizedForm(id, paths)
                ELSE LooseMatches(id, paths)
        IN  \A k \in Importers :
                /\ \A id \in ImportsOf(k) :
                      Resolved(id) # {} =>
                          \E t \in Resolved(id) :
                              t = files[k].path \/ t = "" \/ t \in EdgesFrom(files[k].path)
                /\ \A t \in EdgesFrom(files[k].path) :
                      \E id \in ImportsOf(k) : t \in Resolved(id)
                /\ Cardinality(EdgesFrom(files[k].path)) <= Cardinality(ImportsOf(k))

\* a finished build of a.py (import b, import zz) listed after ab.py, whose
\* normalized path contains b, and before b.py: the one edge of a.py goes to
\* b.py
C25_Witness ==
    /\ pc = "done"
    /\ AllFilePaths(files) = <<"ab.py", "a.py", "b.py">>
    /\ EdgesFrom("a.py") = {"b.py"}

\* the paths of the list are pairwise distinct
DistinctPaths(fs) == \A j, k \in 1..Len(fs) : fs[j].path = fs[k].path => j = k

\* C26: build_dependency_graph is order-independent across files: for a file
\* list with distinct paths, the graph built from any permutation of the
\* list has the same nodes and the same edges as the graph returned.
C26_BuildOrderIndependent ==
    (pc = "done" /\ DistinctPaths(files)) =>
        \A shuffled \in Shuffles(files) :
            LET g == build_dependency_graph(shuffled)
            IN  g.nodes = graph.nodes /\ to_dict(g).edges = to_dict(graph).edges

(***************************************************************************)
(* The queries of DependencyGraph as steps, checked under Spec.            *)
(***************************************************************************)
\* C27: a query (get_upstream, get_downstream, get_all_nodes, to_dict: the
\* steps that are no add_node or add_edge call), asked for any name, a name
\* unknown to the graph included, leaves nodes, edges and reverse_edges as
\* they are, creates no key in the edge maps, and so leaves the value of
\* to_dict() as it is.
C27_QueriesReadOnly ==
    [][calls' = calls =>
          /\ graph' = graph
          /\ DOMAIN graph'.edges = DOMAIN graph.edges
          /\ DOMAIN graph'.reverse_edges = DOMAIN graph.reverse_edges
          /\ to_dict(graph') = to_dict(graph)]_vars

\* get_upstream was asked for a name that is no node and no key of the edge
\* maps of a graph that has an edge
C27_Witness ==
    /\ ret.call = "get_upstream"
    /\ ret.arg \notin graph.nodes
    /\ ret.arg \notin DOMAIN graph.edges \cup DOMAIN graph.reverse_edges
    /\ DOMAIN graph.edges # {}

(***************************************************************************)
(* SpecRelative: build_dependency_graph on lists with Python files whose   *)
(* import statements are relative (from . import x, from .mod import y).   *)
(***************************************************************************)
MaxRelativeFiles == 3   \* length of the file list given to build_dependency_graph

RelativePool ==
    { File("r.py", "from . import x\nfrom .mod import y"),
      File("pkg/q.py", "from .mod import y"),
      File("a.py", "import mod"),
      File("mod.py", "y = 2"),
      File("x.py", "x = 1"),
      File("pkg/__init__.py", "") }

InitRelative ==
    /\ files \in ListsUpTo(RelativePool, MaxRelativeFiles)
    /\ pc = "build"
    /\ i = 1
    /\ IdleGraph
    /\ IdleEntry /\ IdleFlow /\ IdleFolders /\ IdleLang
    /\ IdleStack

SpecRelative == InitRelative /\ [][NextBuild]_vars

\* the module texts of the import statements of a Python source: group 1 of
\* the pattern that matches the stripped line
ImportedModules(content) ==
    LET lines == Split(content, "\n")
        Module(line) ==
            LET l  == Strip(line)
                m1 == re_match(PythonImportPatterns[1], l)
                m2 == re_match(PythonImportPatterns[2], l)
            IN  IF m1.ok THEN {m1.grp} ELSE IF m2.ok THEN {m2.grp} ELSE {}
    IN  UNION {Module(lines[k]) : k \in 1..Len(lines)}

\* the source has import statements and all of them are relative
OnlyRelativeImports(content) ==
    /\ ImportedModules(content) # {}
    /\ \A mod \in ImportedModules(content) : StartsWith(mod, ".")

\* C29: a .py file whose only import statements are relative imports has no
\* outgoing edge in the graph build_dependency_graph returns, and no
\* identifier extracted from a Python file is the empty string.
C29_RelativeImportsNoEdge ==
    pc = "done" =>
        \A k \in Importers :
            EndsWith(files[k].path, ".py") =>
                /\ "" \notin extract_python_imports(files[k].content)
                /\ (\A j \in Importers : files[j].path = files[k].path
                        => OnlyRelativeImports(files[j].content))
                      => EdgesFrom(files[k].path) = {}

(***************************************************************************)
(* Monotonicity of the stack detectors, checked under SpecStack.           *)
(***************************************************************************)
\* the first n records of the list
Prefix(fs, n) == SubSeq(fs, 1, n)

\* C30: appending file records never removes a name from the output of
\* detect_frameworks, detect_databases or detect_infrastructure: what each
\* returns for a list whose extension is the list given is contained in
\* what it returns for the list given.
C30_DetectionMonotone ==
    pc = "done" =>
        \A n \in 0..Len(files) :
            /\ Range(detect_frameworks(Prefix(files, n))) \subseteq Range(detected)
            /\ Range(detect_databases(Prefix(files, n))) \subseteq Range(db_detected)
            /\ Range(detect_infrastructure(Prefix(files, n))) \subseteq Range(infra_detected)

\* a finished run on a list whose first record alone gives some frameworks,
\* databases and no infrastructure, and whose further records add a
\* database and an infrastructure tool
C30_Witness ==
    /\ pc = "done"
    /\ Len(files) >= 2
    /\ detect_frameworks(Prefix(files, 1)) # <<>>
    /\ detect_databases(Prefix(files, 1)) # <<>>
    /\ Range(detect_databases(Prefix(files, 1))) # Range(db_detected)
    /\ detect_infrastructure(Prefix(files, 1)) = <<>>
    /\ infra_detected # <<>>

=============================================================================
